---- MODULE Spec2Model ----
(***************************************************************************)
(* A model of ts-common/json-parser: the lexer `tokenize` and the          *)
(* tree-building parser `parse` of src/unnamed/part_001 (the current       *)
(* index.ts), with the position decoration of src/index.ts.                *)
(*                                                                         *)
(* Characters are UTF-16 code units (integers), strings are sequences of   *)
(* code units.  A JSON primitive or a reference to a container is a record *)
(* [t, m, e, s]:                                                           *)
(*   t = "null" | "true" | "false"                                         *)
(*   t = "num"   the number m * 10^e, m not divisible by 10 (0 is m=0,e=0) *)
(*   t = "inf"   +Infinity (m = 1) or -Infinity (m = -1)                   *)
(*   t = "str"   the string s                                              *)
(*   t = "ref"   the object or array heap[m]                               *)
(*   t = "undef" JavaScript's undefined                                    *)
(* Numbers are exact decimals: the rounding of IEEE doubles is not         *)
(* modelled (the bounded texts hold far fewer than 15 digits).             *)
(***************************************************************************)
EXTENDS Integers, Sequences, FiniteSets, TLC

VARIABLES
  context,   \* parse's and tokenize's text argument
  url,       \* their url argument
  tokens,    \* the generator tokenize returned: how far it has run
  state,     \* the parser's current state (the variable of fa.applyState)
  stack,     \* the open containers, innermost last (the states' closures)
  heap,      \* the objects and arrays created so far, with their info
  value,     \* parse's variable value: the root, once set
  errors,    \* the errors given to reportError so far, in order
  pc,        \* where parse is: "loop", "return", "returned", or "thrown"
             \* (left by an exception); where the consumer of tokenize
             \* is: "tokenize" or "consume", "drained" or "stopped"
  returned,  \* what parse returned
  output,    \* the tokens a consumer of tokenize alone has been given
  reportError, \* their reportError argument: a callback that collects the
             \* errors ("collect"), or defaultErrorReport ("raise")
  calls      \* the calls of parse that have returned before this one

vars ==
  <<context, url, tokens, state, stack, heap, value, errors, pc, returned, output,
    reportError, calls>>

\* ------------------------------------------------------------ characters
Tab == 9

LF == 10

CR == 13

Space == 32

Quote == 34

Plus == 43

Comma == 44

Minus == 45

Dot == 46

Slash == 47

Zero == 48

Colon == 58

LBracket == 91

Backslash == 92

RBracket == 93

LBrace == 123

RBrace == 125

Del == 127

\* "\b" and "\f", the two escape results with no name above
Backspace == 8

FormFeed == 12

\* an upper-case hexadecimal digit, and a letter that is neither a
\* hexadecimal digit nor in the escape table
UpperA == 65

UpperX == 88

\* the lower-case letters the lexer and the parser name
LetterB == 98

LetterE == 101

LetterF == 102

LetterN == 110

LetterR == 114

LetterT == 116

LetterU == 117

UpperE == 69

\* the words "true", "false", "null" and "Infinity"
TrueWord == <<116, 114, 117, 101>>

FalseWord == <<102, 97, 108, 115, 101>>

NullWord == <<110, 117, 108, 108>>

InfinityWord == <<73, 110, 102, 105, 110, 105, 116, 121>>

symbol == {LBrace, RBrace, LBracket, RBracket, Comma, Colon}

\* whiteSpace without "\r"
whiteSpaceNoCR == {Space, Tab, LF}

whiteSpace == {Space, Tab, CR, LF}

jsonValue ==
  (97..122) \cup (65..90) \cup {95, Plus, Minus, Dot} \cup (48..57)

isControl(c) == c <= 31 \/ c = Del

\* escapeMap with n for "\n"
escapeMapLetterN ==
  [c \in {Quote, Backslash, Slash, LetterB, LetterT, LetterF, LetterR, LetterN} |->
    CASE c = LetterB -> Backspace [] c = LetterT -> Tab [] c = LetterF -> FormFeed
      [] c = LetterR -> CR [] OTHER -> c]

escapeMap ==
  [c \in {Quote, Backslash, Slash, LetterB, LetterT, LetterF, LetterR, LetterN} |->
    CASE c = Quote -> Quote
      [] c = Backslash -> Backslash
      [] c = Slash -> Slash
      [] c = LetterB -> Backspace
      [] c = LetterT -> Tab
      [] c = LetterF -> FormFeed
      [] c = LetterR -> CR
      [] c = LetterN -> LF]

hexMap ==
  [c \in (48..57) \cup (65..70) \cup (97..102) |->
    IF c <= 57 THEN c - 48 ELSE IF c <= 70 THEN c - 55 ELSE c - 87]

\* ---------------------------------------------------------------- values
Val(t, m, e, s) == [t |-> t, m |-> m, e |-> e, s |-> s]

Undefined == Val("undef", 0, 0, <<>>)

Null == Val("null", 0, 0, <<>>)

True == Val("true", 0, 0, <<>>)

False == Val("false", 0, 0, <<>>)

Str(s) == Val("str", 0, 0, s)

Ref(id) == Val("ref", id, 0, <<>>)

Infinity(sign) == Val("inf", sign, 0, <<>>)

RECURSIVE Normalize(_, _)
\* the number m * 10^e in its normal form
Normalize(m, e) ==
  IF m = 0 THEN Val("num", 0, 0, <<>>)
  ELSE IF m % 10 = 0 THEN Normalize(m \div 10, e + 1)
  ELSE Val("num", m, e, <<>>)

isPrimitive(v) == v.t \in {"null", "true", "false", "num", "inf", "str"}

NaN == Val("nan", 0, 0, <<>>)

isNaN(v) == v.t = "nan"

isDigit(c) == c >= 48 /\ c <= 57

RECURSIVE DigitsLen(_, _)
\* the number of consecutive decimal digits of s from index i on
DigitsLen(s, i) ==
  IF i <= Len(s) /\ isDigit(s[i]) THEN 1 + DigitsLen(s, i + 1) ELSE 0

RECURSIVE DigitsVal(_)
\* the value of a sequence of decimal digits
DigitsVal(ds) ==
  IF ds = <<>> THEN 0
  ELSE 10 * DigitsVal(SubSeq(ds, 1, Len(ds) - 1)) + (ds[Len(ds)] - 48)

\* ECMAScript parseFloat on a text s without leading whitespace: the value
\* of the longest prefix of s that is a StrDecimalLiteral, NaN when there is
\* none.  The operators below scan s from left to right.
Sign(s) == IF Len(s) > 0 /\ s[1] = Minus THEN -1 ELSE 1

HasDot(s, p) == p <= Len(s) /\ s[p] = Dot

\* the exponent's digits start at pd (nExp of them), its sign is esgn
ExponentValue(s, mant, nFrac, pd, esgn, nExp) ==
  Normalize(mant, (IF nExp > 0 THEN esgn * DigitsVal(SubSeq(s, pd, pd + nExp - 1)) ELSE 0)
                  - nFrac)

\* an "e" or "E" at pe
ExponentSign(s, mant, nFrac, pe, eSigned) ==
  ExponentValue(s, mant, nFrac, IF eSigned THEN pe + 2 ELSE pe + 1,
                IF eSigned /\ s[pe + 1] = Minus THEN -1 ELSE 1,
                DigitsLen(s, IF eSigned THEN pe + 2 ELSE pe + 1))

\* the mantissa mant with nFrac fraction digits ends before pe
ExponentPart(s, mant, nFrac, pe) ==
  IF pe <= Len(s) /\ s[pe] \in {LetterE, UpperE}
    THEN ExponentSign(s, mant, nFrac, pe, pe + 1 <= Len(s) /\ s[pe + 1] \in {Plus, Minus})
  ELSE Normalize(mant, -nFrac)

\* nInt digits from p0 on, then perhaps a dot and nFrac digits
Mantissa(s, p0, nInt, nFrac) ==
  IF nInt + nFrac = 0 THEN NaN
  ELSE ExponentPart(s,
         Sign(s) * DigitsVal(SubSeq(s, p0, p0 + nInt - 1)
                             \o SubSeq(s, p0 + nInt + 1, p0 + nInt + nFrac)),
         nFrac,
         p0 + nInt + (IF HasDot(s, p0 + nInt) THEN 1 + nFrac ELSE 0))

IntegerPart(s, p0, nInt) ==
  Mantissa(s, p0, nInt, IF HasDot(s, p0 + nInt) THEN DigitsLen(s, p0 + nInt + 1) ELSE 0)

\* the literal starts at p0, after the sign if there is one
StrDecimalLiteral(s, p0) ==
  IF Len(s) >= p0 + 7 /\ SubSeq(s, p0, p0 + 7) = InfinityWord THEN Infinity(Sign(s))
  ELSE IntegerPart(s, p0, DigitsLen(s, p0))

parseFloat(s) ==
  StrDecimalLiteral(s, IF Len(s) > 0 /\ s[1] \in {Plus, Minus} THEN 2 ELSE 1)

RECURSIVE Digits(_)
\* the decimal digits of a natural number
Digits(n) ==
  IF n < 10 THEN <<48 + n>> ELSE Append(Digits(n \div 10), 48 + (n % 10))

Zeros(n) == [k \in 1..n |-> Zero]

Abs(n) == IF n < 0 THEN -n ELSE n

\* the exponent part "e+x" or "e-x" of a number in scientific notation
Exponent(x) ==
  <<LetterE>> \o (IF x < 0 THEN <<Minus>> ELSE <<Plus>>) \o Digits(Abs(x))

\* ECMAScript Number::toString for the positive number whose digits are ds
\* and whose decimal point is after the n-th of them
FormatDigits(ds, n) ==
  IF Len(ds) <= n /\ n <= 21 THEN ds \o Zeros(n - Len(ds))
  ELSE IF 0 < n /\ n <= 21 THEN SubSeq(ds, 1, n) \o <<Dot>> \o SubSeq(ds, n + 1, Len(ds))
  ELSE IF -6 < n /\ n <= 0 THEN <<Zero, Dot>> \o Zeros(-n) \o ds
  ELSE IF Len(ds) = 1 THEN ds \o Exponent(n - 1)
  ELSE <<ds[1], Dot>> \o SubSeq(ds, 2, Len(ds)) \o Exponent(n - 1)

\* ECMAScript Number::toString (radix 10) of a number or an infinity
NumberToString(v) ==
  (IF v.m < 0 THEN <<Minus>> ELSE <<>>)
  \o (IF v.t = "inf" THEN InfinityWord
      ELSE IF v.m = 0 THEN <<Zero>>
      ELSE FormatDigits(Digits(Abs(v.m)), Len(Digits(Abs(v.m))) + v.e))

HexDigit(h) == IF h < 10 THEN 48 + h ELSE 87 + h

\* JSON.stringify's quoting of one code unit of a string (lone surrogates,
\* which the bounded texts do not hold, are left as they are)
QuoteChar(c) ==
  IF c = Quote THEN <<Backslash, Quote>>
  ELSE IF c = Backslash THEN <<Backslash, Backslash>>
  ELSE IF c = Backspace THEN <<Backslash, LetterB>>
  ELSE IF c = FormFeed THEN <<Backslash, LetterF>>
  ELSE IF c = LF THEN <<Backslash, LetterN>>
  ELSE IF c = CR THEN <<Backslash, LetterR>>
  ELSE IF c = Tab THEN <<Backslash, LetterT>>
  ELSE IF c < Space THEN <<Backslash, LetterU, Zero, Zero, HexDigit(c \div 16), HexDigit(c % 16)>>
  ELSE <<c>>

RECURSIVE QuoteChars(_)
QuoteChars(s) ==
  IF s = <<>> THEN <<>> ELSE QuoteChar(Head(s)) \o QuoteChars(Tail(s))

\* JSON.stringify of a JSON primitive
stringify(v) ==
  CASE v.t = "null" -> NullWord
    [] v.t = "true" -> TrueWord
    [] v.t = "false" -> FalseWord
    [] v.t = "inf" -> NullWord
    [] v.t = "num" -> NumberToString(v)
    [] v.t = "str" -> <<Quote>> \o QuoteChars(v.s) \o <<Quote>>

\* ---------------------------------------------------------------- tokens
\* A symbol token's kind is its character c; a value token carries value.
SymbolToken(c, position) ==
  [kind |-> "symbol", c |-> c, value |-> Undefined, position |-> position]

ValueToken(v, position) ==
  [kind |-> "value", c |-> 0, value |-> v, position |-> position]

Position(line, column) == [line |-> line, column |-> column]

\* Message with the column where the line belongs and the line where the
\* column belongs
MessageColumnLine(code, token, position) ==
  [code |-> code, token |-> token, line |-> position.column, column |-> position.line]

\* the template string `${code}, token: ${token}, line: ${line}, column: ${column}`,
\* kept as the four values it interpolates
Message(code, token, position) ==
  [code |-> code, token |-> token, line |-> position.line, column |-> position.column]

\* ParseError whose message names the url as well
ParseErrorNamingUrl(kind, code, position, token) ==
  [kind |-> kind, code |-> code, position |-> position, token |-> token,
   message |-> [code |-> code, token |-> token, line |-> position.line,
                column |-> position.column, url |-> url],
   url |-> url]

\* the error object tokenize or parse hands to reportError
ParseError(kind, code, position, token) ==
  [kind |-> kind, code |-> code, position |-> position, token |-> token,
   message |-> Message(code, token, position), url |-> url]

\* ----------------------------------------------------------------- lexer
\* tokenize.report: the syntax error given to the callback
reportSyntax(position, token, code) ==
  ParseError("syntax", code, position, token)

\* A state of the lexer: which state object (st), and the variables its
\* closure holds: the buffer (value), the position of the token's first
\* character, and the digit count i and code unit u of a unicode escape.
LexState(st, buf, position, i, u) ==
  [st |-> st, value |-> buf, position |-> position, i |-> i, u |-> u]

whiteSpaceState == LexState("whiteSpace", <<>>, Position(0, 0), 0, 0)

stringState(position) == LexState("string", <<>>, position, 0, 0)

jsonValueState(prior) == LexState("jsonValue", <<prior.c>>, prior.position, 0, 0)

\* what a state's next returns (a missing state or result is the state
\* unchanged and no token), with the errors it reported on the way
Result(st, res, errs) == [state |-> st, result |-> res, errs |-> errs]

\* whiteSpaceNext giving the character it reports as a token of its own
whiteSpaceNextToken(cp) ==
  IF cp.c = Quote THEN Result(stringState(cp.position), <<>>, <<>>)
  ELSE IF cp.c \in symbol
    THEN Result(whiteSpaceState, <<SymbolToken(cp.c, cp.position)>>, <<>>)
  ELSE IF cp.c \in jsonValue THEN Result(jsonValueState(cp), <<>>, <<>>)
  ELSE IF cp.c \notin whiteSpace
    THEN Result(whiteSpaceState, <<ValueToken(Str(<<cp.c>>), cp.position)>>,
                <<reportSyntax(cp.position, <<cp.c>>, "invalid symbol")>>)
  ELSE Result(whiteSpaceState, <<>>, <<>>)

whiteSpaceNext(cp) ==
  IF cp.c = Quote THEN Result(stringState(cp.position), <<>>, <<>>)
  ELSE IF cp.c \in symbol
    THEN Result(whiteSpaceState, <<SymbolToken(cp.c, cp.position)>>, <<>>)
  ELSE IF cp.c \in jsonValue THEN Result(jsonValueState(cp), <<>>, <<>>)
  ELSE IF cp.c \notin whiteSpace
    THEN Result(whiteSpaceState, <<>>,
                <<reportSyntax(cp.position, <<cp.c>>, "invalid symbol")>>)
  ELSE Result(whiteSpaceState, <<>>, <<>>)

\* stringState.getResult
getResult(L) == ValueToken(Str(L.value), L.position)

\* stringState.next's report of a control character
reportControl(cp) ==
  IF isControl(cp.c) THEN <<reportSyntax(cp.position, <<cp.c>>, "invalid symbol")>>
  ELSE <<>>

\* stringNext leaving a control character out of the value
stringNextSkip(L, cp) ==
  IF cp.c = Quote THEN Result(whiteSpaceState, <<getResult(L)>>, <<>>)
  ELSE IF cp.c = Backslash THEN Result([L EXCEPT !.st = "escape"], <<>>, reportControl(cp))
  ELSE IF isControl(cp.c) THEN Result(L, <<>>, reportControl(cp))
  ELSE Result([L EXCEPT !.value = Append(@, cp.c)], <<>>, <<>>)

stringNext(L, cp) ==
  IF cp.c = Quote THEN Result(whiteSpaceState, <<getResult(L)>>, <<>>)
  ELSE IF cp.c = Backslash THEN Result([L EXCEPT !.st = "escape"], <<>>, reportControl(cp))
  ELSE Result([L EXCEPT !.value = Append(@, cp.c)], <<>>, reportControl(cp))

escapeNext(L, cp) ==
  IF cp.c = LetterU THEN Result([L EXCEPT !.st = "unicode", !.i = 0, !.u = 0], <<>>, <<>>)
  ELSE IF cp.c \notin DOMAIN escapeMap
    THEN Result([L EXCEPT !.st = "string", !.value = Append(@, cp.c)], <<>>,
                <<reportSyntax(cp.position, <<cp.c>>, "invalid escape symbol")>>)
  ELSE Result([L EXCEPT !.st = "string", !.value = Append(@, escapeMap[cp.c])], <<>>, <<>>)

\* (u << 4) | h for a hex digit h: the four low bits of u << 4 are clear, and
\* u holds at most four digits, so no bit of the 32 is lost.
\* ShiftOr shifting by a whole byte
ShiftOrByte(u, h) == (u * 256) + h

ShiftOr(u, h) == (u * 16) + h

\* String.fromCharCode reduces its argument to 16 bits.
fromCharCode(u) == u % 65536

\* unicodeNext appending the character that is no digit, as escapeState does
unicodeNextAppend(L, cp) ==
  IF cp.c \notin DOMAIN hexMap
    THEN Result([L EXCEPT !.st = "string", !.i = 0, !.u = 0, !.value = Append(@, cp.c)], <<>>,
                <<reportSyntax(cp.position, <<cp.c>>, "invalid escape symbol")>>)
  ELSE IF L.i + 1 < 4
    THEN Result([L EXCEPT !.i = @ + 1, !.u = ShiftOr(@, hexMap[cp.c])], <<>>, <<>>)
  ELSE Result([L EXCEPT !.st = "string", !.i = 0, !.u = 0,
                        !.value = Append(@, fromCharCode(ShiftOr(L.u, hexMap[cp.c])))],
              <<>>, <<>>)

unicodeNext(L, cp) ==
  IF cp.c \notin DOMAIN hexMap
    THEN Result([L EXCEPT !.st = "string", !.i = 0, !.u = 0], <<>>,
                <<reportSyntax(cp.position, <<cp.c>>, "invalid escape symbol")>>)
  ELSE IF L.i + 1 < 4
    THEN Result([L EXCEPT !.i = @ + 1, !.u = ShiftOr(@, hexMap[cp.c])], <<>>, <<>>)
  ELSE Result([L EXCEPT !.st = "string", !.i = 0, !.u = 0,
                        !.value = Append(@, fromCharCode(ShiftOr(L.u, hexMap[cp.c])))],
              <<>>, <<>>)

\* stringDone reporting the error and giving no token
stringDoneNoToken(L) ==
  Result(L, <<>>, <<reportSyntax(L.position, L.value, "unexpected end of string")>>)

\* stringState's done, shared by the string, escape and unicode states
stringDone(L) ==
  Result(L, <<getResult(L)>>,
         <<reportSyntax(L.position, L.value, "unexpected end of string")>>)

\* jsonValueState.getResultValue after the switch: num is parseFloat(value)
numberOrText(L, num) ==
  IF isNaN(num)
    THEN Result(L, <<ValueToken(Str(L.value), L.position)>>,
                <<reportSyntax(L.position, L.value, "invalid token")>>)
  ELSE Result(L, <<ValueToken(num, L.position)>>, <<>>)

\* jsonValueState.done with getResultValue: the token of the buffer
jsonValueDone(L) ==
  IF L.value = TrueWord THEN Result(L, <<ValueToken(True, L.position)>>, <<>>)
  ELSE IF L.value = FalseWord THEN Result(L, <<ValueToken(False, L.position)>>, <<>>)
  ELSE IF L.value = NullWord THEN Result(L, <<ValueToken(Null, L.position)>>, <<>>)
  ELSE CHOOSE r \in { numberOrText(L, num) : num \in {parseFloat(L.value)} } : TRUE

\* the Result fa.nextState builds from the tokens it was given (d) and the
\* Result rs of state.next
joinResults(d, rs) == Result(rs.state, d.result \o rs.result, d.errs \o rs.errs)

\* nextState going to whiteSpaceState without giving it the character
nextStateDrop(d, cp) == Result(whiteSpaceState, d.result, d.errs)

\* fa.nextState(result, whiteSpaceState, cp): the character that ended a
\* value buffer is given to whiteSpaceState, after the buffer's token
nextState(d, cp) == joinResults(d, whiteSpaceNext(cp))

jsonValueNext(L, cp) ==
  IF cp.c \in jsonValue THEN Result([L EXCEPT !.value = Append(@, cp.c)], <<>>, <<>>)
  ELSE nextState(jsonValueDone(L), cp)

\* state.next(cp) of the lexer's current state
lexNext(L, cp) ==
  CASE L.st = "whiteSpace" -> whiteSpaceNext(cp)
    [] L.st = "string" -> stringNext(L, cp)
    [] L.st = "escape" -> escapeNext(L, cp)
    [] L.st = "unicode" -> unicodeNext(L, cp)
    [] L.st = "jsonValue" -> jsonValueNext(L, cp)

\* lexDone whose jsonValueState gives the raw buffer as the token
lexDoneRaw(L) ==
  CASE L.st = "whiteSpace" -> Result(L, <<>>, <<>>)
    [] L.st \in {"string", "escape", "unicode"} -> stringDone(L)
    [] L.st = "jsonValue" -> Result(L, <<ValueToken(Str(L.value), L.position)>>, <<>>)

\* state.done() of the lexer's current state (whiteSpaceState has none)
lexDone(L) ==
  CASE L.st = "whiteSpace" -> Result(L, <<>>, <<>>)
    [] L.st \in {"string", "escape", "unicode"} -> stringDone(L)
    [] L.st = "jsonValue" -> jsonValueDone(L)

\* addPosition taking "\r" for a line end as well
addPositionCR(c, position) ==
  IF c \in {LF, CR} THEN Position(position.line + 1, 1)
  ELSE Position(position.line, position.column + 1)

\* addPosition: after character c at (line, column), the next position
addPosition(c, position) ==
  IF c = LF THEN Position(position.line + 1, 1)
  ELSE Position(position.line, position.column + 1)

\* ---------------------------------------------- the generator of tokenize
\* fa.applyState(addPosition(s), whiteSpaceState) as far as it has run:
\* its state variable, the number i of characters taken from the text, the
\* position of the next character, the tokens of a yield* not yet taken by
\* the consumer, and whether the generator has ended.
Generator(st, i, position, queue, closed) ==
  [state |-> st, i |-> i, position |-> position, queue |-> queue, closed |-> closed]

StartGenerator == Generator(whiteSpaceState, 0, Position(1, 1), <<>>, FALSE)

\* the generator after a turn of its loop whose state.next returned r
afterNext(G, c, r) ==
  [gen |-> Generator(r.state, G.i + 1, addPosition(c, G.position), r.result, FALSE),
   errs |-> r.errs]

\* one turn of the generator's loop: the next character is given to state.next
charStep(G, s) ==
  afterNext(G, s[G.i + 1], lexNext(G.state, [c |-> s[G.i + 1], position |-> G.position]))

\* the generator after its loop, state.done having returned r: it ends
afterDone(G, r) ==
  [gen |-> Generator(G.state, G.i, G.position, r.result, TRUE), errs |-> r.errs]

doneStep(G) == afterDone(G, lexDone(G.state))

\* what the consumer gets when it asks for the next token
Yield(G, got, tok, errs) == [gen |-> G, got |-> got, tok |-> tok, errs |-> errs]

NoToken == SymbolToken(0, Position(0, 0))

RECURSIVE pull(_, _, _)
\* the generator runs on after a step r of its own
\* (the result r of the step is taken once, as the one value next(c) returned)
pullOn(r, s, errs) ==
  CHOOSE y \in { pull(v.gen, s, errs \o v.errs) : v \in {r} } : TRUE

\* The consumer asks generator G for its next token: the generator runs
\* until its next yield (got, tok) or until it ends (~got); errs are the
\* errors reported since the consumer asked.
pull(G, s, errs) ==
  IF G.queue # <<>> THEN Yield([G EXCEPT !.queue = Tail(@)], TRUE, Head(G.queue), errs)
  ELSE IF G.closed THEN Yield(G, FALSE, NoToken, errs)
  ELSE IF G.i < Len(s) THEN pullOn(charStep(G, s), s, errs)
  ELSE pullOn(doneStep(G), s, errs)

\* the tokens and the errors of tokenize(s, cb, url) drained to its end
RECURSIVE drain(_, _, _, _)
\* the generator having given r
drainOn(r, s, toks, errs) ==
  IF r.got THEN drain(r.gen, s, Append(toks, r.tok), errs \o r.errs)
  ELSE [toks |-> toks, errs |-> errs \o r.errs]

drain(G, s, toks, errs) == drainOn(pull(G, s, <<>>), s, toks, errs)

tokenize(s) == drain(StartGenerator, s, <<>>, <<>>)

\* the consumer leaves its for-of loop early: the generator is closed where
\* it stands, the rest of its body (state.done included) never runs
close(G) == [G EXCEPT !.queue = <<>>, !.closed = TRUE]

\* ---------------------------------------------------------------- parser
\* parse.report and parse.reportToken: the structure error given to the callback
reportStructure(position, token, code) ==
  ParseError("structure", code, position, token)

reportToken(t, code) ==
  reportStructure(t.position, IF t.kind = "value" THEN stringify(t.value) ELSE <<t.c>>, code)

\* A state of the parser: which state object (k) and, for propertyValueState
\* and the valueState made by it, the property name of its closure.  The
\* container a state belongs to is the innermost open one, Top(stack); a
\* valueState with no open container is the top-level one.
ParserState(k, name) == [k |-> k, name |-> name]

endState == ParserState("end", <<>>)

\* the state {} endState moves to: it has neither next nor done
deadState == ParserState("dead", <<>>)

\* RootInfo without the url
RootInfoNoUrl(position) ==
  [isChild |-> FALSE, position |-> position, parent |-> 0, propertyKind |-> "none",
   property |-> <<>>, index |-> 0, url |-> ""]

\* ChildInfo with the index taken after the element was pushed
ChildInfoAfterPush(position, parent, propertyKind, property, index) ==
  [isChild |-> TRUE, position |-> position, parent |-> parent, propertyKind |-> propertyKind,
   property |-> property, index |-> index + 1, url |-> ""]

\* sourceMap.ObjectInfo.  primitiveProperties is the container's own side
\* table (the same object), kept in the container's prim field.
RootInfo(position) ==
  [isChild |-> FALSE, position |-> position, parent |-> 0, propertyKind |-> "none",
   property |-> <<>>, index |-> 0, url |-> url]

ChildInfo(position, parent, propertyKind, property, index) ==
  [isChild |-> TRUE, position |-> position, parent |-> parent, propertyKind |-> propertyKind,
   property |-> property, index |-> index, url |-> ""]

\* A container of the heap.  entries: the properties in insertion order (an
\* array's elements, whose name is unused); prim: primitiveProperties, the
\* set of (key, position) pairs, an array's keys being the decimal strings
\* of the indices as in any JavaScript object.
Container(kind, info) == [kind |-> kind, entries |-> <<>>, prim |-> {}, info |-> info]

Top(stk) == stk[Len(stk)]

\* map[name] = position on a string map
SetKey(map, name, position) ==
  {e \in map : e.name # name} \cup {[name |-> name, position |-> position]}

\* SetProperty adding a second property of the same name
SetPropertyAppend(entries, name, v) == Append(entries, [name |-> name, v |-> v])

\* object[name] = v: an own property keeps its place, a new one is added last
SetProperty(entries, name, v) ==
  IF \E k \in 1..Len(entries) : entries[k].name = name
    THEN [k \in 1..Len(entries) |->
           IF entries[k].name = name THEN [name |-> name, v |-> v] ELSE entries[k]]
    ELSE Append(entries, [name |-> name, v |-> v])

\* A parser configuration: the variables a state's next may change.
Config(st, stk, hp, val, errs) ==
  [state |-> st, stack |-> stk, heap |-> hp, value |-> val, errors |-> errs]

\* The setFunc of the valueState in configuration P, applied to (v, position):
\* the one of parse at top level, of propertyValueState in an object, of
\* arrayState.itemState in an array.  Returns the configuration and the info.
setFunc(P, v, position) ==
  IF P.stack = <<>>
    THEN [conf |-> [P EXCEPT !.value = v], info |-> RootInfo(position)]
  ELSE LET os == Top(P.stack)
           name == P.state.name
           c == P.heap[os.id]
       IN  IF os.kind = "object"
             THEN [conf |-> [P EXCEPT !.heap[os.id] =
                      [c EXCEPT !.entries = SetProperty(@, name, v),
                                !.prim = IF isPrimitive(v) THEN SetKey(@, name, position) ELSE @]],
                   info |-> ChildInfo(position, os.id, "key", name, 0)]
             ELSE LET property == Len(c.entries)
                  IN  [conf |-> [P EXCEPT !.heap[os.id] =
                          [c EXCEPT !.entries = Append(@, [name |-> <<>>, v |-> v]),
                                    !.prim = IF isPrimitive(v)
                                               THEN SetKey(@, Digits(property), position) ELSE @]],
                       info |-> ChildInfo(position, os.id, "index", <<>>, property)]

\* the state a valueState continues with: endState at top level, else the
\* separatorState of the container it belongs to
continuation(stk) ==
  IF stk = <<>> THEN endState ELSE ParserState("separator", <<>>)

\* valueState.next.updateRef and the switch on "{" and "[": a new container
\* is placed by setFunc, gets its info and becomes the innermost open one
openContainer(P, t, kind) ==
  LET id == Len(P.heap) + 1
      r == setFunc(P, Ref(id), t.position)
  IN  [r.conf EXCEPT !.heap = Append(@, Container(kind, r.info)),
                     !.stack = Append(@, [kind |-> kind, id |-> id, position |-> t.position]),
                     !.state = ParserState(kind, <<>>)]

\* valueNext giving up the value position with the token it rejects
valueNextSkip(P, t) ==
  IF t.kind = "value"
    THEN [setFunc(P, t.value, t.position).conf EXCEPT !.state = continuation(P.stack)]
  ELSE IF t.c = LBrace THEN openContainer(P, t, "object")
  ELSE IF t.c = LBracket THEN openContainer(P, t, "array")
  ELSE [P EXCEPT !.errors = Append(@, reportToken(t, "unexpected token")),
                 !.state = continuation(P.stack)]

\* valueNext reporting the token it rejects twice
valueNextReportTwice(P, t) ==
  IF t.kind = "value"
    THEN [setFunc(P, t.value, t.position).conf EXCEPT !.state = continuation(P.stack)]
  ELSE IF t.c = LBrace THEN openContainer(P, t, "object")
  ELSE IF t.c = LBracket THEN openContainer(P, t, "array")
  ELSE [P EXCEPT !.errors = @ \o <<reportToken(t, "unexpected token"),
                                   reportToken(t, "unexpected token")>>]

valueNext(P, t) ==
  IF t.kind = "value"
    THEN [setFunc(P, t.value, t.position).conf EXCEPT !.state = continuation(P.stack)]
  ELSE IF t.c = LBrace THEN openContainer(P, t, "object")
  ELSE IF t.c = LBracket THEN openContainer(P, t, "array")
  ELSE [P EXCEPT !.errors = Append(@, reportToken(t, "unexpected token"))]

\* endNext taking a value token for the new root
endNextReplace(P, t) ==
  [P EXCEPT !.errors = Append(@, reportToken(t, "unexpected token")), !.state = deadState,
            !.value = IF t.kind = "value" THEN t.value ELSE @]

\* endNext returning nothing: the state stays endState
endNextStay(P, t) ==
  [P EXCEPT !.errors = Append(@, reportToken(t, "unexpected token"))]

endNext(P, t) ==
  [P EXCEPT !.errors = Append(@, reportToken(t, "unexpected token")), !.state = deadState]

\* return { state: os.state }: the container is closed, the state that was
\* waiting for it as a value continues
closeContainer(P) ==
  LET stk == SubSeq(P.stack, 1, Len(P.stack) - 1)
  IN  [P EXCEPT !.stack = stk, !.state = continuation(stk)]

\* the closing symbol of a container, and the symbol that opens one
Closer(kind) == IF kind = "object" THEN RBrace ELSE RBracket

\* separatorNext going on, after the token it rejects, as after a ","
separatorNextAsComma(P, t) ==
  LET os == Top(P.stack)
  IN  IF t.kind = "symbol" /\ t.c = Closer(os.kind) THEN closeContainer(P)
      ELSE IF t.kind = "symbol" /\ t.c = Comma
        THEN [P EXCEPT !.state = IF os.kind = "object" THEN ParserState("property", <<>>)
                                 ELSE ParserState("value", <<>>)]
      ELSE [P EXCEPT !.errors = Append(@, reportToken(t, "unexpected token")),
                     !.state = IF os.kind = "object" THEN ParserState("property", <<>>)
                               ELSE ParserState("value", <<>>)]

\* separatorNext taking either closing symbol for the end of its container
separatorNextAnyCloser(P, t) ==
  LET os == Top(P.stack)
  IN  IF t.kind = "symbol" /\ t.c \in {RBrace, RBracket} THEN closeContainer(P)
      ELSE IF t.kind = "symbol" /\ t.c = Comma
        THEN [P EXCEPT !.state = IF os.kind = "object" THEN ParserState("property", <<>>)
                                 ELSE ParserState("value", <<>>)]
      ELSE [P EXCEPT !.errors = Append(@, reportToken(t, "unexpected token"))]

separatorNext(P, t) ==
  LET os == Top(P.stack)
  IN  IF t.kind = "symbol" /\ t.c = Closer(os.kind) THEN closeContainer(P)
      ELSE IF t.kind = "symbol" /\ t.c = Comma
        THEN [P EXCEPT !.state = IF os.kind = "object" THEN ParserState("property", <<>>)
                                 ELSE ParserState("value", <<>>)]
      ELSE [P EXCEPT !.errors = Append(@, reportToken(t, "unexpected token"))]

\* propertyValueNext taking any symbol for the ":"
propertyValueNextAnySymbol(P, t) ==
  IF t.kind = "symbol"
    THEN [P EXCEPT !.state = ParserState("value", P.state.name)]
  ELSE [P EXCEPT !.errors = Append(@, reportToken(t, "unexpected token"))]

propertyValueNext(P, t) ==
  IF t.kind = "symbol" /\ t.c = Colon
    THEN [P EXCEPT !.state = ParserState("value", P.state.name)]
  ELSE [P EXCEPT !.errors = Append(@, reportToken(t, "unexpected token"))]

\* name.toString() of a number or a boolean
toString(v) ==
  CASE v.t = "true" -> TrueWord
    [] v.t = "false" -> FalseWord
    [] v.t \in {"num", "inf"} -> NumberToString(v)

\* propertyNext refusing a key that is not a string: the token is reported
\* and dropped
propertyNextStrict(P, t) ==
  IF t.kind # "value"
    THEN [P EXCEPT !.errors = Append(@, reportToken(t, "unexpected token"))]
  ELSE IF t.value.t # "str"
    THEN [P EXCEPT !.errors = Append(@, reportToken(t, "expecting property name"))]
  ELSE [P EXCEPT !.state = ParserState("propertyValue", t.value.s)]

propertyNext(P, t) ==
  IF t.kind # "value"
    THEN [P EXCEPT !.errors = Append(@, reportToken(t, "unexpected token"))]
  ELSE IF t.value.t = "null"
    THEN [P EXCEPT !.errors = Append(@, reportToken(t, "expecting property name")),
                   !.state = ParserState("propertyValue", NullWord)]
  ELSE IF t.value.t # "str"
    THEN [P EXCEPT !.errors = Append(@, reportToken(t, "expecting property name")),
                   !.state = ParserState("propertyValue", toString(t.value))]
  ELSE [P EXCEPT !.state = ParserState("propertyValue", t.value.s)]

\* the state objectState returns (after "{")
objectNext(P, t) ==
  IF t.kind = "symbol" /\ t.c = RBrace THEN closeContainer(P) ELSE propertyNext(P, t)

\* the state arrayState returns (after "[")
arrayNext(P, t) ==
  IF t.kind = "symbol" /\ t.c = RBracket THEN closeContainer(P) ELSE valueNext(P, t)

\* parserDone reporting the outermost open container
parserDoneOutermost(P) ==
  IF P.state.k \in {"object", "array", "separator"}
    THEN LET os == P.stack[1]
         IN  <<reportToken(SymbolToken(Closer(os.kind), os.position), "unexpected end of file")>>
  ELSE <<>>

\* state.done() of the parser's state: the errors it reports
parserDone(P) ==
  IF P.state.k \in {"object", "array", "separator"}
    THEN LET os == Top(P.stack)
         IN  <<reportToken(SymbolToken(Closer(os.kind), os.position), "unexpected end of file")>>
  ELSE <<>>

\* ------------------------------------------------------------ parse(...)
MaxLen == 3

\* the characters of the texts: the six symbols, the quote, a letter, a
\* digit, a space and DEL (a character a JSON string may hold unescaped)
Alphabet ==
  {LBrace, RBrace, LBracket, RBracket, Comma, Colon, Quote, 97, 49, Space, Del}

Texts(alphabet, n) == UNION {[1..k -> alphabet] : k \in 0..n}

\* How the texts begin: with nothing, or inside containers already open,
\*   {"a":1,      {"a":1,"a":      [1,[      [{"a":
\* or after a complete top-level value, [].
Prefixes ==
  { <<>>,
    <<123, 34, 97, 34, 58, 49, 44>>,
    <<123, 34, 97, 34, 58, 49, 44, 34, 97, 34, 58>>,
    <<91, 49, 44, 91>>,
    <<91, 123, 34, 97, 34, 58>>,
    <<91, 93>> }

\* the texts parse is called with: a prefix, then every text of at most
\* MaxLen characters of the alphabet
Contexts == {p \o b : p \in Prefixes, b \in Texts(Alphabet, MaxLen)}

Urls == {"a.json"}

Init ==
  /\ context \in Contexts
  /\ url \in Urls
  /\ tokens = StartGenerator
  /\ state = ParserState("value", <<>>)
  /\ stack = <<>>
  /\ heap = <<>>
  /\ value = Undefined
  /\ errors = <<>>
  /\ pc = "loop"
  /\ returned = Undefined
  /\ output = <<>>
  /\ reportError = "collect"
  /\ calls = <<>>

\* reportError(e) returns only when the callback collects: with
\* defaultErrorReport the first report raises, so a step of parse or of the
\* generator runs to its end only if it reports nothing (errs: the errors
\* after the step)
Quiet(errs) == reportError = "raise" => errs = errors

\* the parser's configuration, and the token the loop of fa.applyState gets
\* from the generator next
Conf == Config(state, stack, heap, value, errors)

Pulled == pull(tokens, context, <<>>)

\* Turn with the report of the state's next given to the callback before
\* the lexical errors met on the way to the token
TurnStructureFirst(k, P) ==
  /\ pc = "loop"
  /\ state.k = k
  /\ Pulled.got
  /\ tokens' = Pulled.gen
  /\ state' = P.state
  /\ stack' = P.stack
  /\ heap' = P.heap
  /\ value' = P.value
  /\ errors' = errors
              \o SubSeq(P.errors, Len(errors) + Len(Pulled.errs) + 1, Len(P.errors))
              \o Pulled.errs
  /\ UNCHANGED <<context, url, pc, returned, output, reportError, calls>>
  /\ Quiet(errors')

\* Turn leaving the token in the stream, to be handled again
TurnKeepingToken(k, P) ==
  /\ pc = "loop"
  /\ state.k = k
  /\ Pulled.got
  /\ tokens' = tokens
  /\ state' = P.state
  /\ stack' = P.stack
  /\ heap' = P.heap
  /\ value' = P.value
  /\ errors' = P.errors
  /\ UNCHANGED <<context, url, pc, returned, output, reportError, calls>>
  /\ Quiet(errors')

\* One turn of the loop of fa.applyState(tokens, valueState(endState, ...)):
\* the generator has a token, the lexical errors met on the way to it are
\* reported, then the state's next handles the token.
Turn(k, P) ==
  /\ pc = "loop"
  /\ state.k = k
  /\ Pulled.got
  /\ tokens' = Pulled.gen
  /\ \E after \in {P} :
       /\ state' = after.state
       /\ stack' = after.stack
       /\ heap' = after.heap
       /\ value' = after.value
       /\ errors' = after.errors
  /\ UNCHANGED <<context, url, pc, returned, output, reportError, calls>>
  /\ Quiet(errors')

Before == [Conf EXCEPT !.errors = @ \o Pulled.errs]

\* In each of the seven actions the configuration and the token are read
\* once, as the one state and the one `c` of `state.next(c)`.
ValueStateNext ==
  Turn("value", CHOOSE c \in { valueNext(P, t) : P \in {Before}, t \in {Pulled.tok} } : TRUE)

EndStateNext ==
  Turn("end", CHOOSE c \in { endNext(P, t) : P \in {Before}, t \in {Pulled.tok} } : TRUE)

ObjectStateNext ==
  Turn("object", CHOOSE c \in { objectNext(P, t) : P \in {Before}, t \in {Pulled.tok} } : TRUE)

PropertyStateNext ==
  Turn("property", CHOOSE c \in { propertyNext(P, t) : P \in {Before}, t \in {Pulled.tok} } : TRUE)

PropertyValueStateNext ==
  Turn("propertyValue", CHOOSE c \in { propertyValueNext(P, t) : P \in {Before}, t \in {Pulled.tok} } : TRUE)

SeparatorStateNext ==
  Turn("separator", CHOOSE c \in { separatorNext(P, t) : P \in {Before}, t \in {Pulled.tok} } : TRUE)

ArrayStateNext ==
  Turn("array", CHOOSE c \in { arrayNext(P, t) : P \in {Before}, t \in {Pulled.tok} } : TRUE)

\* Break with continue in the place of break: the token is dropped and the
\* loop goes on
BreakContinue ==
  /\ pc = "loop"
  /\ state.k = "dead"
  /\ Pulled.got
  /\ tokens' = Pulled.gen
  /\ errors' = errors \o Pulled.errs
  /\ UNCHANGED <<context, url, state, stack, heap, value, pc, returned, output, reportError, calls>>
  /\ Quiet(errors')

\* the loop gets a token while the state has no next: break
Break ==
  /\ pc = "loop"
  /\ state.k = "dead"
  /\ Pulled.got
  /\ tokens' = close(Pulled.gen)
  /\ errors' = errors \o Pulled.errs
  /\ pc' = "return"
  /\ UNCHANGED <<context, url, state, stack, heap, value, returned, output, reportError, calls>>
  /\ Quiet(errors')

\* the generator ends: the loop is over and state.done, if any, is called
Done ==
  /\ pc = "loop"
  /\ ~Pulled.got
  /\ tokens' = Pulled.gen
  /\ errors' = errors \o Pulled.errs \o parserDone(Conf)
  /\ pc' = "return"
  /\ UNCHANGED <<context, url, state, stack, heap, value, returned, output, reportError, calls>>
  /\ Quiet(errors')

\* Return without the report of the missing value
ReturnNoReport ==
  /\ pc = "return"
  /\ errors' = errors
  /\ returned' = (IF value = Undefined THEN Null ELSE value)
  /\ pc' = "returned"
  /\ UNCHANGED <<context, url, tokens, state, stack, heap, value, output, reportError, calls>>
  /\ Quiet(errors')

\* Return reporting the end of file also when a container is still open
ReturnReportsOpen ==
  /\ pc = "return"
  /\ IF value = Undefined \/ stack # <<>>
       THEN /\ errors' = Append(errors, reportStructure(Position(1, 1), <<>>, "unexpected end of file"))
            /\ returned' = (IF value = Undefined THEN Null ELSE value)
       ELSE /\ errors' = errors
            /\ returned' = value
  /\ pc' = "returned"
  /\ UNCHANGED <<context, url, tokens, state, stack, heap, value, output, reportError, calls>>
  /\ Quiet(errors')

\* the last statements of parse
Return ==
  /\ pc = "return"
  /\ IF value = Undefined
       THEN /\ errors' = Append(errors, reportStructure(Position(1, 1), <<>>, "unexpected end of file"))
            /\ returned' = Null
       ELSE /\ errors' = errors
            /\ returned' = value
  /\ pc' = "returned"
  /\ UNCHANGED <<context, url, tokens, state, stack, heap, value, output, reportError, calls>>
  /\ Quiet(errors')

Next ==
  \/ ValueStateNext
  \/ EndStateNext
  \/ ObjectStateNext
  \/ PropertyStateNext
  \/ PropertyValueStateNext
  \/ SeparatorStateNext
  \/ ArrayStateNext
  \/ Break
  \/ Done
  \/ Return

Spec == Init /\ [][Next]_vars

\* ------------------------------------------- parse(...) on property keys
\* Texts about property names: they begin with
\*   {null      {false      {true:1,      {45:1}      {1.50      {"a"
\* and go on with at most MaxLen of the characters } [ , : " 1 and space.
KeyAlphabet == {RBrace, LBracket, Comma, Colon, Quote, 49, Space}

KeyPrefixes ==
  { <<LBrace>> \o NullWord,
    <<LBrace>> \o FalseWord,
    <<LBrace>> \o TrueWord \o <<Colon, 49, Comma>>,
    <<LBrace, 52, 53, Colon, 49, RBrace>>,
    <<LBrace, 49, Dot, 53, Zero>>,
    <<LBrace, Quote, 97, Quote>> }

KeyContexts == {p \o b : p \in KeyPrefixes, b \in Texts(KeyAlphabet, MaxLen)}

KeyInit ==
  /\ context \in KeyContexts
  /\ url \in Urls
  /\ tokens = StartGenerator
  /\ state = ParserState("value", <<>>)
  /\ stack = <<>>
  /\ heap = <<>>
  /\ value = Undefined
  /\ errors = <<>>
  /\ pc = "loop"
  /\ returned = Undefined
  /\ output = <<>>
  /\ reportError = "collect"
  /\ calls = <<>>

KeySpec == KeyInit /\ [][Next]_vars

\* ------------------------------------------------ tokenize(...) drained
LexLen == 2

\* the characters of the texts given to tokenize: the four white space
\* characters, the quote, the backslash, u, the hexadecimal digits 0 A e,
\* X, n, a symbol, DEL, and the - and . of numbers
LexAlphabet ==
  {Space, Tab, LF, CR, Quote, Backslash, LetterU, Zero, UpperA, LetterE, UpperX,
   LetterN, Comma, Del, Minus, Dot}

\* How the texts begin: with nothing, inside a string, after a backslash,
\* inside a unicode escape of no, one, two or three digits, with a literal,
\* inside a number, on the second line after white space, after an escape
\* of the table, or after a unicode escape cut short ("\u0XAE).
LexPrefixes ==
  { <<>>,
    <<Quote>>,
    <<Quote, Backslash>>,
    <<Quote, Backslash, LetterU>>,
    <<Quote, Backslash, LetterU, Zero>>,
    <<Quote, Backslash, LetterU, UpperA, LetterE>>,
    <<Quote, Backslash, LetterU, Zero, Zero, UpperA>>,
    TrueWord,
    FalseWord,
    NullWord,
    <<Minus, Zero, Dot, Zero, LetterE>>,
    <<Space, CR, LF, Tab>>,
    <<Quote, Backslash, Slash>>,
    <<Quote, Backslash, LetterB>>,
    <<Quote, Backslash, LetterF>>,
    <<Quote, Backslash, LetterR>>,
    <<Quote, Backslash, LetterT>>,
    <<Quote, Backslash, LetterU, Zero, UpperX, UpperA, UpperE>> }

LexContexts == {p \o b : p \in LexPrefixes, b \in Texts(LexAlphabet, LexLen)}

\* toArray(tokenize(context, e => errors.push(e), url)) is about to run
LexInit ==
  /\ context \in LexContexts
  /\ url \in Urls
  /\ tokens = StartGenerator
  /\ state = ParserState("value", <<>>)
  /\ stack = <<>>
  /\ heap = <<>>
  /\ value = Undefined
  /\ errors = <<>>
  /\ pc = "tokenize"
  /\ returned = Undefined
  /\ output = <<>>
  /\ reportError = "collect"
  /\ calls = <<>>

\* the generator after a step r of it, the consumer having taken the tokens
\* of the step
Taken(r) ==
  /\ tokens' = [r.gen EXCEPT !.queue = <<>>]
  /\ output' = output \o r.gen.queue
  /\ errors' = errors \o r.errs

\* One turn of the loop of fa.applyState(addPosition(s), whiteSpaceState)
\* in lexer state st: the next character is given to state.next, the errors
\* it reports and the tokens it yields are collected.
LexTurn(st) ==
  /\ pc = "tokenize"
  /\ tokens.i < Len(context)
  /\ tokens.state.st = st
  /\ Taken(charStep(tokens, context))
  /\ UNCHANGED <<context, url, state, stack, heap, value, pc, returned, reportError, calls>>
  /\ Quiet(errors')

WhiteSpaceStateTurn == LexTurn("whiteSpace")

StringStateTurn == LexTurn("string")

EscapeStateTurn == LexTurn("escape")

UnicodeStateTurn == LexTurn("unicode")

JsonValueStateTurn == LexTurn("jsonValue")

\* the text is at its end: state.done, if any, gives the last token
StateDone ==
  /\ pc = "tokenize"
  /\ tokens.i = Len(context)
  /\ Taken(doneStep(tokens))
  /\ pc' = "drained"
  /\ UNCHANGED <<context, url, state, stack, heap, value, returned, reportError, calls>>
  /\ Quiet(errors')

LexNext ==
  \/ WhiteSpaceStateTurn
  \/ StringStateTurn
  \/ EscapeStateTurn
  \/ UnicodeStateTurn
  \/ JsonValueStateTurn
  \/ StateDone

LexSpec == LexInit /\ [][LexNext]_vars

\* --------------------------------------------- parse(...) called repeatedly
\* A caller that calls parse again and again, with a callback that collects.
\* parse and tokenize hold everything they change in local variables; the
\* module's own constants (symbol, whiteSpace, jsonValue, escapeMap, hexMap)
\* are never written.
MaxCalls == 2

CallUrls == {"a.json", "b.json"}

\* the texts of the calls, all of them malformed:
\*   {"a":[1 }],}      1,,      [1 "a      and the empty text
CallTexts ==
  { <<123, 34, 97, 34, 58, 91, 49, 32, 125, 93, 44, 125>>,
    <<49, 44, 44>>,
    <<91, 49, 32, 34, 97>>,
    <<>> }

\* what a call was given and what it gave: the reports its callback got,
\* the value it returned with the objects and arrays of its tree (and their
\* info), and the tokens of its text
CallRecord(u, s, errs, ret, hp, toks) ==
  [url |-> u, context |-> s, errors |-> errs, returned |-> ret, heap |-> hp,
   tokens |-> toks]

CallsInit ==
  /\ context \in CallTexts
  /\ url \in CallUrls
  /\ tokens = StartGenerator
  /\ state = ParserState("value", <<>>)
  /\ stack = <<>>
  /\ heap = <<>>
  /\ value = Undefined
  /\ errors = <<>>
  /\ pc = "loop"
  /\ returned = Undefined
  /\ output = <<>>
  /\ reportError = "collect"
  /\ calls = <<>>

\* Call with the generator's position kept from the call before, as a
\* position counter outside tokenize would be
CallKeepingPosition ==
  /\ pc = "returned"
  /\ Len(calls) < MaxCalls
  /\ calls' = Append(calls, CallRecord(url, context, errors, returned, heap,
                                       tokenize(context).toks))
  /\ context' \in CallTexts
  /\ url' \in CallUrls
  /\ tokens' = [StartGenerator EXCEPT !.position = tokens.position]
  /\ state' = ParserState("value", <<>>)
  /\ stack' = <<>>
  /\ heap' = <<>>
  /\ value' = Undefined
  /\ errors' = <<>>
  /\ pc' = "loop"
  /\ returned' = Undefined
  /\ UNCHANGED <<output, reportError>>

\* parse has returned and the caller calls it again: new arguments, and
\* every local variable of parse and tokenize made anew
Call ==
  /\ pc = "returned"
  /\ Len(calls) < MaxCalls
  /\ calls' = Append(calls, CallRecord(url, context, errors, returned, heap,
                                       tokenize(context).toks))
  /\ context' \in CallTexts
  /\ url' \in CallUrls
  /\ tokens' = StartGenerator
  /\ state' = ParserState("value", <<>>)
  /\ stack' = <<>>
  /\ heap' = <<>>
  /\ value' = Undefined
  /\ errors' = <<>>
  /\ pc' = "loop"
  /\ returned' = Undefined
  /\ UNCHANGED <<output, reportError>>

CallsNext == Next \/ Call

CallsSpec == CallsInit /\ [][CallsNext]_vars

\* ------------------------------------ parse(...) with defaultErrorReport
\* parse(url, context) with no callback given: reportError is
\* defaultErrorReport, which throws the error it is given.  Neither parse
\* nor tokenize nor fa.applyState has a try statement: the exception leaves
\* the state's next or done, the generator it ran in, the loop of
\* fa.applyState and parse.
RaiseLen == 2

RaiseAlphabet ==
  {LBrace, RBrace, LBracket, Comma, Colon, Quote, 49, Space, Del, Backslash, UpperX}

\* How the texts begin: with nothing, inside an object after a property,
\* inside an array after an element, after a value, after a backslash in a
\* string, inside a unicode escape:
\*   {"a":1,      [1      "a"      "\      "\u0
RaisePrefixes ==
  { <<>>,
    <<123, 34, 97, 34, 58, 49, 44>>,
    <<91, 49>>,
    <<34, 97, 34>>,
    <<Quote, Backslash>>,
    <<Quote, Backslash, LetterU, Zero>> }

RaiseContexts == {p \o b : p \in RaisePrefixes, b \in Texts(RaiseAlphabet, RaiseLen)}

RaiseInit ==
  /\ context \in RaiseContexts
  /\ url \in Urls
  /\ tokens = StartGenerator
  /\ state = ParserState("value", <<>>)
  /\ stack = <<>>
  /\ heap = <<>>
  /\ value = Undefined
  /\ errors = <<>>
  /\ pc = "loop"
  /\ returned = Undefined
  /\ output = <<>>
  /\ reportError = "raise"
  /\ calls = <<>>

\* the generator where an exception left it: it has taken the character it
\* was given (if the text had one left), its state variable was not
\* assigned, nothing of the step is yielded, and it has ended
raisedIn(G, s) ==
  [G EXCEPT !.i = IF G.i < Len(s) THEN G.i + 1 ELSE G.i, !.queue = <<>>, !.closed = TRUE]

RECURSIVE pullRaise(_, _)
\* the generator after a step r of its own: the first report of the step
\* raises before the step returns anything
raiseOn(G, r, s) ==
  IF r.errs # <<>> THEN Yield(raisedIn(G, s), FALSE, NoToken, <<Head(r.errs)>>)
  ELSE pullRaise(r.gen, s)

\* The consumer asks generator G for its next token while reportError
\* raises: the generator runs until its next yield, its end, or its first
\* report (errs, of one error).
pullRaise(G, s) ==
  IF G.queue # <<>> THEN Yield([G EXCEPT !.queue = Tail(@)], TRUE, Head(G.queue), <<>>)
  ELSE IF G.closed THEN Yield(G, FALSE, NoToken, <<>>)
  ELSE raiseOn(G, IF G.i < Len(s) THEN charStep(G, s) ELSE doneStep(G), s)

PulledRaise == pullRaise(tokens, context)

\* state.next(t) of the parser's state
stateNext(P, t) ==
  CASE P.state.k = "value" -> valueNext(P, t)
    [] P.state.k = "end" -> endNext(P, t)
    [] P.state.k = "object" -> objectNext(P, t)
    [] P.state.k = "property" -> propertyNext(P, t)
    [] P.state.k = "propertyValue" -> propertyValueNext(P, t)
    [] P.state.k = "separator" -> separatorNext(P, t)
    [] P.state.k = "array" -> arrayNext(P, t)

\* what the parser's state reports first for the token the generator gives
FirstReport == stateNext(Conf, PulledRaise.tok).errors[Len(errors) + 1]

\* LexerRaises with the exception caught in parse, which goes on to its
\* last statements
LexerRaisesCaught ==
  /\ reportError = "raise"
  /\ pc = "loop"
  /\ PulledRaise.errs # <<>>
  /\ tokens' = PulledRaise.gen
  /\ errors' = errors \o PulledRaise.errs
  /\ pc' = "return"
  /\ UNCHANGED <<context, url, state, stack, heap, value, returned, output, reportError, calls>>

\* the lexer reports while the loop of fa.applyState waits for a token:
\* the exception ends the generator and leaves parse
LexerRaises ==
  /\ reportError = "raise"
  /\ pc = "loop"
  /\ PulledRaise.errs # <<>>
  /\ tokens' = PulledRaise.gen
  /\ errors' = errors \o PulledRaise.errs
  /\ pc' = "thrown"
  /\ UNCHANGED <<context, url, state, stack, heap, value, returned, output, reportError, calls>>

\* the parser's state reports for the token it is given: the exception
\* leaves next before it returns its new state, the loop is left (which
\* ends the generator) and so is parse
ParserRaises ==
  /\ reportError = "raise"
  /\ pc = "loop"
  /\ PulledRaise.errs = <<>>
  /\ PulledRaise.got
  /\ stateNext(Conf, PulledRaise.tok).errors # errors
  /\ tokens' = close(PulledRaise.gen)
  /\ errors' = Append(errors, FirstReport)
  /\ pc' = "thrown"
  /\ UNCHANGED <<context, url, state, stack, heap, value, returned, output, reportError, calls>>

\* the generator has ended and the state's done reports
DoneRaises ==
  /\ reportError = "raise"
  /\ pc = "loop"
  /\ PulledRaise.errs = <<>>
  /\ ~PulledRaise.got
  /\ parserDone(Conf) # <<>>
  /\ tokens' = PulledRaise.gen
  /\ errors' = Append(errors, Head(parserDone(Conf)))
  /\ pc' = "thrown"
  /\ UNCHANGED <<context, url, state, stack, heap, value, returned, output, reportError, calls>>

\* the last statements of parse report that no value was set
ReturnRaises ==
  /\ reportError = "raise"
  /\ pc = "return"
  /\ value = Undefined
  /\ errors' = Append(errors, reportStructure(Position(1, 1), <<>>, "unexpected end of file"))
  /\ pc' = "thrown"
  /\ UNCHANGED <<context, url, tokens, state, stack, heap, value, returned, output, reportError, calls>>

\* endState's next always reports, so with defaultErrorReport it never
\* returns and the state without next is never reached: EndStateNext and
\* Break have no step here.
RaiseNext ==
  \/ ValueStateNext
  \/ ObjectStateNext
  \/ PropertyStateNext
  \/ PropertyValueStateNext
  \/ SeparatorStateNext
  \/ ArrayStateNext
  \/ Done
  \/ Return
  \/ LexerRaises
  \/ ParserRaises
  \/ DoneRaises
  \/ ReturnRaises

RaiseSpec == RaiseInit /\ [][RaiseNext]_vars

\* ------------------------------------- tokenize(...) taken token by token
\* A consumer of tokenize that takes the tokens one at a time (a for-of
\* loop over the generator) and may leave its loop at any token.  The
\* generator is lazy: iterator.iterable wraps a function*, and addPosition
\* maps the text lazily, so nothing runs before the first token is asked
\* for, and fa.applyState runs from one yield to the next.
PullLen == 3

\* the characters of the texts: two symbols, the quote, a digit, a letter,
\* a space, the backslash, and DEL (an invalid symbol wherever it stands)
PullAlphabet == {Comma, LBracket, Quote, 49, 97, Space, Backslash, Del}

\* How the texts begin: with nothing, inside a number, inside a string
PullPrefixes == { <<>>, <<49>>, <<Quote, 97>> }

PullContexts == {p \o b : p \in PullPrefixes, b \in Texts(PullAlphabet, PullLen)}

PullInit ==
  /\ context \in PullContexts
  /\ url \in Urls
  /\ tokens = StartGenerator
  /\ state = ParserState("value", <<>>)
  /\ stack = <<>>
  /\ heap = <<>>
  /\ value = Undefined
  /\ errors = <<>>
  /\ pc = "consume"
  /\ returned = Undefined
  /\ output = <<>>
  /\ reportError = "collect"
  /\ calls = <<>>

\* TakeToken with a generator that runs one character past the token it
\* yields, as a lexer reading ahead would
TakeTokenAhead ==
  /\ pc = "consume"
  /\ Pulled.got
  /\ tokens' = (IF Pulled.gen.i < Len(context) /\ Pulled.gen.queue = <<>>
                  THEN charStep(Pulled.gen, context).gen ELSE Pulled.gen)
  /\ output' = Append(output, Pulled.tok)
  /\ errors' = errors \o Pulled.errs
              \o (IF Pulled.gen.i < Len(context) /\ Pulled.gen.queue = <<>>
                    THEN charStep(Pulled.gen, context).errs ELSE <<>>)
  /\ UNCHANGED <<context, url, state, stack, heap, value, pc, returned, reportError, calls>>
  /\ Quiet(errors')

\* the consumer asks for the next token and the generator yields one: the
\* generator has run up to that yield and no further
TakeToken ==
  /\ pc = "consume"
  /\ Pulled.got
  /\ tokens' = Pulled.gen
  /\ output' = Append(output, Pulled.tok)
  /\ errors' = errors \o Pulled.errs
  /\ UNCHANGED <<context, url, state, stack, heap, value, pc, returned, reportError, calls>>
  /\ Quiet(errors')

\* the consumer asks for the next token and the generator ends
TakeEnd ==
  /\ pc = "consume"
  /\ ~Pulled.got
  /\ tokens' = Pulled.gen
  /\ errors' = errors \o Pulled.errs
  /\ pc' = "drained"
  /\ UNCHANGED <<context, url, state, stack, heap, value, returned, output, reportError, calls>>
  /\ Quiet(errors')

\* the consumer leaves its loop (break, or return): the generator is closed
\* at the yield where it stands
StopTaking ==
  /\ pc = "consume"
  /\ tokens' = close(tokens)
  /\ pc' = "stopped"
  /\ UNCHANGED <<context, url, state, stack, heap, value, errors, returned, output, reportError, calls>>

PullNext ==
  \/ TakeToken
  \/ TakeEnd
  \/ StopTaking

PullSpec == PullInit /\ [][PullNext]_vars

\* --------------------------------------------- parse(...) run to its end
\* parse is one synchronous call: once called with a callback that returns,
\* nothing but its own steps stands between the call and the return, so
\* each step that can be taken is taken.
LiveLen == 2

\* the characters of the texts: the six symbols, the quote and a digit
LiveAlphabet == {LBrace, RBrace, LBracket, RBracket, Comma, Colon, Quote, 49}

LiveContexts == {p \o b : p \in Prefixes, b \in Texts(LiveAlphabet, LiveLen)}

LiveInit ==
  /\ context \in LiveContexts
  /\ url \in Urls
  /\ tokens = StartGenerator
  /\ state = ParserState("value", <<>>)
  /\ stack = <<>>
  /\ heap = <<>>
  /\ value = Undefined
  /\ errors = <<>>
  /\ pc = "loop"
  /\ returned = Undefined
  /\ output = <<>>
  /\ reportError = "collect"
  /\ calls = <<>>

LiveSpec == LiveInit /\ [][Next]_vars /\ WF_vars(Next)

\* ------------------------------------------------- a reference JSON decoder
\* RFC 8259, written on its own: a strict scanner of the text into tokens,
\* then the grammar over the tokens.  A value is kept as its canonical text:
\* a number in the notation of Number::toString, a string as JSON.stringify
\* writes it, an array or object from its members' canonical texts, an
\* object's members in insertion order, a repeated name keeping its first
\* place and its last value (JSON.parse).
RefFail == [ok |-> FALSE, toks |-> <<>>]

\* c: the symbol, or 0 for a value; text: a value's canonical text; raw: a
\* string's characters
RefTok(c, text, isString, raw) == [c |-> c, text |-> text, isString |-> isString, raw |-> raw]

RefSimpleEscapes == {34, 92, 47, 98, 102, 110, 114, 116}

RefEscape(c) ==
  CASE c = 98 -> 8 [] c = 102 -> 12 [] c = 110 -> 10 [] c = 114 -> 13 [] c = 116 -> 9
    [] OTHER -> c

RefIsHex(c) == (c >= 48 /\ c <= 57) \/ (c >= 65 /\ c <= 70) \/ (c >= 97 /\ c <= 102)

RefHex(c) == IF c <= 57 THEN c - 48 ELSE IF c <= 70 THEN c - 55 ELSE c - 87

RECURSIVE RefLex(_, _, _)
RECURSIVE RefString(_, _, _, _)
\* inside a string whose characters so far are buf; i is the next index
RefString(s, i, buf, toks) ==
  IF i > Len(s) THEN RefFail
  ELSE IF s[i] = 34
    THEN RefLex(s, i + 1, Append(toks, RefTok(0, stringify(Str(buf)), TRUE, buf)))
  ELSE IF s[i] = 92
    THEN IF i + 1 > Len(s) THEN RefFail
         ELSE IF s[i + 1] \in RefSimpleEscapes
           THEN RefString(s, i + 2, Append(buf, RefEscape(s[i + 1])), toks)
         ELSE IF s[i + 1] = 117 /\ i + 5 <= Len(s) /\ \A k \in 2..5 : RefIsHex(s[i + k])
           THEN RefString(s, i + 6,
                          Append(buf, 4096 * RefHex(s[i + 2]) + 256 * RefHex(s[i + 3])
                                      + 16 * RefHex(s[i + 4]) + RefHex(s[i + 5])), toks)
         ELSE RefFail
  ELSE IF s[i] < 32 THEN RefFail
  ELSE RefString(s, i + 1, Append(buf, s[i]), toks)

\* a number from index i on: -? (0 | [1-9][0-9]*) (. [0-9]+)? ([eE] [+-]? [0-9]+)?
RefNumber(s, i, toks) ==
  LET neg == s[i] = 45
      j == IF neg THEN i + 1 ELSE i
      nInt == IF j <= Len(s) /\ s[j] = 48 THEN 1 ELSE DigitsLen(s, j)
      d == j + nInt
      hasFrac == d <= Len(s) /\ s[d] = 46
      nFrac == IF hasFrac THEN DigitsLen(s, d + 1) ELSE 0
      x == IF hasFrac THEN d + 1 + nFrac ELSE d
      hasExp == x <= Len(s) /\ s[x] \in {101, 69}
      expSigned == hasExp /\ x + 1 <= Len(s) /\ s[x + 1] \in {43, 45}
      y == IF expSigned THEN x + 2 ELSE x + 1
      nExp == IF hasExp THEN DigitsLen(s, y) ELSE 0
      end == IF hasExp THEN y + nExp ELSE x
      mant == DigitsVal(SubSeq(s, j, d - 1) \o SubSeq(s, d + 1, d + nFrac))
      exp == IF hasExp THEN (IF expSigned /\ s[x + 1] = 45 THEN -1 ELSE 1)
                             * DigitsVal(SubSeq(s, y, y + nExp - 1))
             ELSE 0
      v == Normalize((IF neg THEN -1 ELSE 1) * mant, exp - nFrac)
  IN  IF nInt = 0 \/ (hasFrac /\ nFrac = 0) \/ (hasExp /\ nExp = 0) THEN RefFail
      ELSE RefLex(s, end, Append(toks, RefTok(0, NumberToString(v), FALSE, <<>>)))

RefLiteral(s, i, word) == i + Len(word) - 1 <= Len(s) /\ SubSeq(s, i, i + Len(word) - 1) = word

\* the tokens of s from index i on, after the tokens toks
RefLex(s, i, toks) ==
  IF i > Len(s) THEN [ok |-> TRUE, toks |-> toks]
  ELSE IF s[i] \in {32, 9, 10, 13} THEN RefLex(s, i + 1, toks)
  ELSE IF s[i] \in {123, 125, 91, 93, 44, 58}
    THEN RefLex(s, i + 1, Append(toks, RefTok(s[i], <<>>, FALSE, <<>>)))
  ELSE IF s[i] = 34 THEN RefString(s, i + 1, <<>>, toks)
  ELSE IF s[i] = 45 \/ isDigit(s[i]) THEN RefNumber(s, i, toks)
  ELSE IF RefLiteral(s, i, TrueWord)
    THEN RefLex(s, i + 4, Append(toks, RefTok(0, TrueWord, FALSE, <<>>)))
  ELSE IF RefLiteral(s, i, FalseWord)
    THEN RefLex(s, i + 5, Append(toks, RefTok(0, FalseWord, FALSE, <<>>)))
  ELSE IF RefLiteral(s, i, NullWord)
    THEN RefLex(s, i + 4, Append(toks, RefTok(0, NullWord, FALSE, <<>>)))
  ELSE RefFail

RECURSIVE RefJoin(_, _)
\* the canonical texts of an object's (isObject) or an array's members
RefJoin(entries, isObject) ==
  IF entries = <<>> THEN <<>>
  ELSE (IF isObject THEN stringify(Str(entries[1].name)) \o <<58>> ELSE <<>>)
       \o entries[1].v
       \o (IF Len(entries) > 1 THEN <<44>> ELSE <<>>)
       \o RefJoin(Tail(entries), isObject)

RefContainerText(kind, entries) ==
  IF kind = "object" THEN <<123>> \o RefJoin(entries, TRUE) \o <<125>>
  ELSE <<91>> \o RefJoin(entries, FALSE) \o <<93>>

\* The grammar's state: ok (the tokens so far begin a JSON text), the open
\* containers with their members so far, what is expected next, and the
\* text of the complete top-level value (out).
RefState(ok, stk, expect, out) == [ok |-> ok, stack |-> stk, expect |-> expect, out |-> out]

RefStart == RefState(TRUE, <<>>, "value", <<>>)

RefBad == RefState(FALSE, <<>>, "none", <<>>)

\* a complete value, of canonical text v, where a value is expected
RefPlace(R, v) ==
  IF R.stack = <<>> THEN RefState(TRUE, <<>>, "end", v)
  ELSE LET f == R.stack[Len(R.stack)]
           g == [f EXCEPT !.entries = SetProperty(@, f.key, v)]
           h == [f EXCEPT !.entries = Append(@, [name |-> <<>>, v |-> v])]
       IN  RefState(TRUE, [R.stack EXCEPT ![Len(R.stack)] = IF f.kind = "object" THEN g ELSE h],
                    "commaOrClose", <<>>)

RefOpen(R, kind) ==
  RefState(TRUE, Append(R.stack, [kind |-> kind, entries |-> <<>>, key |-> <<>>]),
           IF kind = "object" THEN "keyOrClose" ELSE "valueOrClose", <<>>)

RefClose(R) ==
  LET f == R.stack[Len(R.stack)]
  IN  RefPlace([R EXCEPT !.stack = SubSeq(@, 1, Len(@) - 1)],
               RefContainerText(f.kind, f.entries))

RefValue(R, t) ==
  IF t.c = 0 THEN RefPlace(R, t.text)
  ELSE IF t.c = 123 THEN RefOpen(R, "object")
  ELSE IF t.c = 91 THEN RefOpen(R, "array")
  ELSE RefBad

RefKey(R, t) ==
  IF t.c = 0 /\ t.isString
    THEN [R EXCEPT !.stack[Len(R.stack)].key = t.raw, !.expect = "colon"]
  ELSE RefBad

\* one token
RefStep(R, t) ==
  CASE ~R.ok -> RefBad
    [] R.ok /\ R.expect = "value" -> RefValue(R, t)
    [] R.ok /\ R.expect = "end" -> RefBad
    [] R.ok /\ R.expect = "valueOrClose" -> IF t.c = 93 THEN RefClose(R) ELSE RefValue(R, t)
    [] R.ok /\ R.expect = "keyOrClose" -> IF t.c = 125 THEN RefClose(R) ELSE RefKey(R, t)
    [] R.ok /\ R.expect = "key" -> RefKey(R, t)
    [] R.ok /\ R.expect = "colon" -> IF t.c = 58 THEN [R EXCEPT !.expect = "value"] ELSE RefBad
    [] R.ok /\ R.expect = "commaOrClose" ->
         LET f == R.stack[Len(R.stack)]
         IN  IF t.c = 44 THEN [R EXCEPT !.expect = IF f.kind = "object" THEN "key" ELSE "value"]
             ELSE IF (f.kind = "object" /\ t.c = 125) \/ (f.kind = "array" /\ t.c = 93)
               THEN RefClose(R)
             ELSE RefBad

RECURSIVE RefRun(_, _)
RefRun(R, toks) == IF toks = <<>> THEN R ELSE RefRun(RefStep(R, Head(toks)), Tail(toks))

\* the grammar's state after the whole text s
RefParse(s) ==
  LET l == RefLex(s, 1, <<>>)
  IN  IF l.ok THEN RefRun(RefStart, l.toks) ELSE RefBad

\* s is a JSON text
RefValid(s) == RefParse(s).ok /\ RefParse(s).expect = "end"

\* s is a sequence of whole tokens that begins a JSON text and leaves at
\* least one object or array open
RefOpenPrefix(s) == RefParse(s).ok /\ RefParse(s).stack # <<>>

RECURSIVE Canon(_, _)
RECURSIVE CanonEntries(_, _)
CanonEntries(hp, entries) ==
  [k \in 1..Len(entries) |-> [name |-> entries[k].name, v |-> Canon(hp, entries[k].v)]]

\* the canonical text of a value of the parser
Canon(hp, v) ==
  IF v.t = "ref" THEN RefContainerText(hp[v.m].kind, CanonEntries(hp, hp[v.m].entries))
  ELSE IF v.t \in {"num", "inf"} THEN NumberToString(v)
  ELSE stringify(v)

\* ----------------------------------------------------------------- claims
\* what parse has done once it has returned
Returned == pc = "returned"

Codes(errs) == [k \in 1..Len(errs) |-> errs[k].code]

\* C1: for every text that is valid JSON, parse reports no error and returns
\* a value deep-equal to the reference decoder's (here: the same canonical
\* text).  The code reports `invalid symbol` for DEL inside a string.
C1_ValidJsonParsesClean ==
  (Returned /\ RefValid(context))
    => (errors = <<>> /\ Canon(heap, returned) = RefParse(context).out)

Structural(errs) == SelectSeq(errs, LAMBDA e : e.kind = "structure")

Lexical(errs) == SelectSeq(errs, LAMBDA e : e.kind = "syntax")

\* s is empty or holds only space, tab, CR and LF
Blank(s) == \A k \in 1..Len(s) : s[k] \in {32, 9, 13, 10}

NoDel(s) == \A k \in 1..Len(s) : s[k] # Del

\* the generator of tokenize after the consumer has taken n tokens from it
RECURSIVE pulls(_, _, _)
pulls(G, s, n) == IF n = 0 THEN G ELSE pulls(pull(G, s, <<>>).gen, s, n - 1)

\* the first character of s that is not white space (0 when there is none)
FirstChar(s) ==
  LET ks == { k \in 1..Len(s) : s[k] \notin whiteSpace }
  IN  IF ks = {} THEN 0 ELSE s[CHOOSE k \in ks : \A i \in ks : k <= i]

\* the last character a JSON text that begins with character f can have
EndsValue(f, c) ==
  IF f = LBrace THEN c = RBrace
  ELSE IF f = LBracket THEN c = RBracket
  ELSE IF f = Quote THEN c = Quote
  ELSE c \in jsonValue

\* The places j of s where a complete top-level value ends and after which
\* at least one more token follows: s up to j is a valid JSON text (ending
\* with its value) whose tokens are tokens of s, and s has more tokens.
FirstValueEnds(s) ==
  { j \in 1..(Len(s) - 1) :
      /\ EndsValue(FirstChar(s), s[j])
      /\ \E i \in (j + 1)..Len(s) : s[i] \notin whiteSpace
      /\ LET a == tokenize(SubSeq(s, 1, j)).toks
             b == tokenize(s).toks
         IN  Len(a) < Len(b) /\ SubSeq(b, 1, Len(a)) = a
      /\ RefValid(SubSeq(s, 1, j)) }

\* the number of tokens of s up to j
TokensTo(s, j) == Len(tokenize(SubSeq(s, 1, j)).toks)

UnexpectedToken(t) == reportToken(t, "unexpected token")

\* C2: for a text with no token (empty, or white space only) parse returns
\* null and reports exactly one error: kind structure, code `unexpected end
\* of file`, token the empty string, line 1, column 1.
C2_NoTokenIsEndOfFile ==
  (Returned /\ Blank(context))
    => /\ returned = Null
       /\ Len(errors) = 1
       /\ errors[1].kind = "structure"
       /\ errors[1].code = "unexpected end of file"
       /\ errors[1].token = <<>>
       /\ errors[1].position = [line |-> 1, column |-> 1]
       /\ errors[1].message =
            [code |-> "unexpected end of file", token |-> <<>>, line |-> 1, column |-> 1]

C2_Witness == Returned /\ Blank(context) /\ Len(context) = 2 /\ returned = Null

\* C3: when tokens follow a complete top-level value, parse returns that
\* first value and reports exactly one structural error, `unexpected token`
\* at the first extra token, however many extra tokens follow.
C3_FirstValueWins ==
  Returned =>
    \A j \in FirstValueEnds(context) :
      /\ Canon(heap, returned) = RefParse(SubSeq(context, 1, j)).out
      /\ Structural(errors) =
           <<UnexpectedToken(tokenize(context).toks[TokensTo(context, j) + 1])>>

C3_Witness ==
  /\ Returned
  /\ \E j \in FirstValueEnds(context) :
       Len(tokenize(context).toks) >= TokensTo(context, j) + 3
  /\ Len(Structural(errors)) = 1

C5_LexicalErrorsAsTokenize ==
  Returned => Lexical(errors) = tokenize(context).errs

Opener(kind) == IF kind = "object" THEN LBrace ELSE LBracket

\* position is the place in the text of the symbol that opens a kind
OpensAt(s, position, kind) ==
  /\ position.line = 1
  /\ position.column \in 1..Len(s)
  /\ s[position.column] = Opener(kind)

EndOfFile(errs) == SelectSeq(errs, LAMBDA e : e.code = "unexpected end of file")

\* C6: when the input ends in the state after `{` or `[`, or in the
\* separator state of an object or array, exactly one `unexpected end of
\* file` error is reported; its token is the closing symbol of the innermost
\* open container and its position that of the container's opening token;
\* nothing is reported for the enclosing containers, and parse returns the
\* partly built root, not null.
C6_EndOfFileInContainer ==
  (Returned /\ state.k \in {"object", "array", "separator"})
    => LET os == Top(stack)
           e == errors[Len(errors)]
       IN  /\ EndOfFile(errors) = <<e>>
           /\ e.kind = "structure"
           /\ e.token = <<Closer(heap[os.id].kind)>>
           /\ e.position = heap[os.id].info.position
           /\ OpensAt(context, e.position, heap[os.id].kind)
           /\ \A k \in 1..(Len(stack) - 1) :
                heap[stack[k].id].info.position.column < e.position.column
           /\ e.message = [code |-> "unexpected end of file", token |-> e.token,
                           line |-> e.position.line, column |-> e.position.column]
           /\ returned = Ref(1)
           /\ returned = value

C6_Witness ==
  /\ Returned
  /\ state.k = "separator"
  /\ Len(stack) = 2
  /\ stack[1].kind # stack[2].kind
  /\ Len(EndOfFile(errors)) = 1

\* C7: for every beginning of a valid JSON text made of whole tokens that
\* leaves an object or array open, parse reports exactly one error, and its
\* code is `unexpected end of file` (stated for the texts without DEL).
C7_OpenPrefixIsEndOfFile ==
  (Returned /\ RefOpenPrefix(context) /\ NoDel(context))
    => Codes(errors) = <<"unexpected end of file">>

\* the containers of the heap, and the key under which the k-th entry of a
\* container is held
Ids == 1..Len(heap)

KeyOf(c, k) == IF c.kind = "object" THEN c.entries[k].name ELSE Digits(k - 1)

\* C8: an object or array placed as a property or element has info with
\* isChild = true, parent = the container it was placed in, property = the
\* key or the index it was placed under, position = the position of its
\* opening symbol.
C8_ChildInfo ==
  \A p \in Ids : \A k \in 1..Len(heap[p].entries) :
    LET v == heap[p].entries[k].v
        info == heap[v.m].info
    IN  v.t = "ref" =>
          /\ info.isChild
          /\ info.parent = p
          /\ IF heap[p].kind = "object"
               THEN info.propertyKind = "key" /\ info.property = heap[p].entries[k].name
               ELSE info.propertyKind = "index" /\ info.index = k - 1
          /\ OpensAt(context, info.position, heap[v.m].kind)
          /\ info.position.column > heap[p].info.position.column
          /\ \A q \in Ids : q < v.m => heap[q].info.position.column < info.position.column

C8_Witness ==
  /\ Returned
  /\ \E p \in Ids : \E k \in 1..Len(heap[p].entries) :
       /\ heap[p].kind = "object"
       /\ heap[p].info.isChild
       /\ heap[heap[p].info.parent].kind = "array"
       /\ heap[p].entries[k].v.t = "ref"

\* the place of the first symbol of s that opens a container (s of one line)
FirstOpener(s) ==
  LET ks == { k \in 1..Len(s) : s[k] \in {LBrace, LBracket} }
  IN  CHOOSE k \in ks : \A j \in ks : k <= j

\* C9: a top-level object or array has info with isChild = false, url = the
\* url given to parse and position = the position of its opening token; no
\* other value of the tree has isChild = false.
C9_RootInfo ==
  /\ value.t = "ref" =>
       /\ value = Ref(1)
       /\ ~heap[1].info.isChild
       /\ heap[1].info.url = url
       /\ heap[1].info.position = [line |-> 1, column |-> FirstOpener(context)]
       /\ heap[1].kind = (IF context[FirstOpener(context)] = LBrace THEN "object" ELSE "array")
  /\ \A id \in Ids : ~heap[id].info.isChild => (id = 1 /\ value = Ref(1))
  /\ Returned => returned \in {value, Null}

C9_Witness == Returned /\ returned = Ref(1) /\ Len(heap) >= 2 /\ heap[1].info.position.column > 1

\* C10: in every object and array the side table of primitive positions has
\* an entry for a key or index exactly when the value now held there is a
\* primitive, and the entry is the position of a token with that value;
\* also when a property name occurs more than once.
C10_PrimitivePositions ==
  Returned => \A id \in Ids :
    LET c == heap[id]
    IN  /\ \A k \in 1..Len(c.entries) :
             isPrimitive(c.entries[k].v) <=> \E e \in c.prim : e.name = KeyOf(c, k)
        /\ \A e \in c.prim :
             \E k \in 1..Len(c.entries) :
               /\ e.name = KeyOf(c, k)
               /\ \E j \in 1..Len(tokenize(context).toks) :
                    tokenize(context).toks[j] = ValueToken(c.entries[k].v, e.position)

\* a token arrives while the parser expects a property name, and it is a value
KeyTurn ==
  /\ pc = "loop"
  /\ Pulled.got
  /\ state.k \in {"object", "property"}
  /\ Pulled.tok.kind = "value"

\* a value token arrives for the property state.name of the innermost object
PropertyValueTurn ==
  /\ pc = "loop"
  /\ Pulled.got
  /\ state.k = "value"
  /\ stack # <<>>
  /\ Top(stack).kind = "object"
  /\ Pulled.tok.kind = "value"

\* the string form of a key that is null, a boolean or a number (finite)
KeyForm(v) == stringify(v)

\* C11: in property-key position a number, boolean or null is accepted as
\* the key with exactly one `expecting property name` error at that token,
\* the key being its string form; a string key causes no error; once `:`
\* and a value follow, the property is assigned as for any key.
C11_KeyCoercion ==
  [][ /\ KeyTurn =>
           LET t == Pulled.tok
           IN  /\ state' = ParserState("propertyValue",
                                        IF t.value.t = "str" THEN t.value.s ELSE KeyForm(t.value))
               /\ errors' = errors \o Pulled.errs \o
                    (IF t.value.t = "str" THEN <<>>
                     ELSE <<[kind |-> "structure", code |-> "expecting property name",
                             position |-> t.position, token |-> stringify(t.value),
                             message |-> [code |-> "expecting property name",
                                          token |-> stringify(t.value),
                                          line |-> t.position.line,
                                          column |-> t.position.column],
                             url |-> url]>>)
               /\ heap' = heap
      /\ PropertyValueTurn =>
           LET id == Top(stack).id
           IN  /\ errors' = errors \o Pulled.errs
               /\ \E k \in 1..Len(heap'[id].entries) :
                    heap'[id].entries[k] = [name |-> state.name, v |-> Pulled.tok.value]
               /\ \A k \in 1..Len(heap[id].entries) :
                    heap[id].entries[k].name # state.name
                      => heap'[id].entries[k] = heap[id].entries[k]
    ]_vars

C11_Witness ==
  /\ Returned
  /\ Codes(errors) = <<"expecting property name">>
  /\ heap[1].entries = <<[name |-> NullWord, v |-> Normalize(1, 0)]>>

\* what draining tokenize has come to
Drained == pc = "drained"

\* C12: for a text of white space only (space, tab, CR, LF), the empty text
\* included, tokenize yields no token and reports no error.
C12_WhiteSpaceOnly ==
  (Drained /\ Blank(context)) => (output = <<>> /\ errors = <<>>)

C12_Witness ==
  /\ Drained
  /\ Blank(context)
  /\ \A c \in {32, 9, 13, 10} : \E k \in 1..Len(context) : context[k] = c
  /\ Len(context) = 6

\* The position of the k-th character of s: line = 1 + the number of "\n"
\* before it, column = 1 + the number of characters since the last "\n".
PositionOf(s, k) ==
  LET lfs == { j \in 1..(k - 1) : s[j] = 10 }
      last == IF lfs = {} THEN 0 ELSE CHOOSE j \in lfs : \A i \in lfs : i <= j
  IN  [line |-> 1 + Cardinality(lfs), column |-> k - last]

\* the tokens the consumer is given in this step
Yielded == SubSeq(output', Len(output) + 1, Len(output'))

\* C13: a token's position is the position of the first character of its
\* lexeme: of the character itself for a symbol, of the opening quote for a
\* string, of the first character of the buffer for a literal or number;
\* positions count lines by "\n" alone, "\r" and tab advance the column.
\* Step by step: the generator holds the position of the next character; a
\* lexeme that starts at a character records that character's position and
\* keeps it; a symbol token has the position of its character and a value
\* token the position its lexeme recorded.
C13_TokenPositions ==
  [][ pc = "tokenize" =>
        LET L == tokens.state
            here == PositionOf(context, tokens.i + 1)
        IN  /\ tokens.position = here
            /\ \A k \in 1..Len(Yielded) :
                 IF Yielded[k].kind = "symbol"
                   THEN /\ tokens.i < Len(context)
                        /\ Yielded[k].c = context[tokens.i + 1]
                        /\ Yielded[k].position = here
                   ELSE L.st # "whiteSpace" /\ Yielded[k].position = L.position
            /\ pc' = "tokenize" =>
                 /\ tokens'.i = tokens.i + 1
                 /\ tokens'.position = PositionOf(context, tokens.i + 2)
                 /\ tokens'.state.st # "whiteSpace" =>
                      tokens'.state.position =
                        (IF L.st = "whiteSpace" \/ Yielded # <<>> THEN here ELSE L.position)
    ]_vars

C13_Witness ==
  /\ Drained
  /\ Len(output) = 2
  /\ output[1].position = [line |-> 2, column |-> 2]
  /\ output[1].kind = "value"
  /\ output[2].position = [line |-> 2, column |-> 3]

\* the errors reported in this step
Reported == SubSeq(errors', Len(errors) + 1, Len(errors'))

\* a value buffer is finalized in this step: the text ends, or the next
\* character cannot belong to a buffer
Finalizing ==
  /\ pc = "tokenize"
  /\ tokens.state.st = "jsonValue"
  /\ tokens.i = Len(context) \/ context[tokens.i + 1] \notin jsonValue

\* b is a number of the JSON grammar:
\*   -? (0 | [1-9][0-9]*) (. [0-9]+)? ([eE] [+-]? [0-9]+)?
JsonNumber(b) ==
  LET r == RefLex(b, 1, <<>>)
  IN  r.ok /\ Len(r.toks) = 1 /\ r.toks[1].c = 0 /\ ~r.toks[1].isString
      /\ b \notin {TrueWord, FalseWord, NullWord}

InvalidToken(b, position) ==
  [kind |-> "syntax", code |-> "invalid token", position |-> position, token |-> b,
   message |-> [code |-> "invalid token", token |-> b,
                line |-> position.line, column |-> position.column],
   url |-> url]

\* C14: a finalized value buffer that is exactly true, false or null gives
\* the literal's token and no error; otherwise one that is a number of the
\* JSON grammar gives a number token and no error; any other gives a string
\* token holding the raw text and exactly one `invalid token` error, with
\* the raw text as token and the position of the buffer's first character.
C14_ValueBufferFinalized ==
  [][ Finalizing =>
        LET b == tokens.state.value
            position == tokens.state.position
            bad == SelectSeq(Reported, LAMBDA e : e.code = "invalid token")
        IN  /\ Yielded # <<>>
            /\ Yielded[1].kind = "value"
            /\ Yielded[1].position = position
            /\ IF b = TrueWord THEN Yielded[1].value = True /\ bad = <<>>
               ELSE IF b = FalseWord THEN Yielded[1].value = False /\ bad = <<>>
               ELSE IF b = NullWord THEN Yielded[1].value = Null /\ bad = <<>>
               ELSE IF JsonNumber(b)
                 THEN /\ Yielded[1].value.t = "num"
                      /\ NumberToString(Yielded[1].value) = RefLex(b, 1, <<>>).toks[1].text
                      /\ bad = <<>>
               ELSE /\ Yielded[1].value = Str(b)
                    /\ bad = <<InvalidToken(b, position)>>
                    /\ Reported[1] = InvalidToken(b, position)
    ]_vars

InvalidSymbol(c, position) ==
  [kind |-> "syntax", code |-> "invalid symbol", position |-> position, token |-> <<c>>,
   message |-> [code |-> "invalid symbol", token |-> <<c>>,
                line |-> position.line, column |-> position.column],
   url |-> url]

\* C15: the character that ends a value buffer is not lost: after the value
\* token it is handled as at the start of a token.  A symbol gives the
\* value token and then the symbol token; a quote starts a string at that
\* character; white space gives nothing more; any other character gives one
\* `invalid symbol` error for it.
C15_EndingCharacterKept ==
  [][ (Finalizing /\ tokens.i < Len(context)) =>
        LET c == context[tokens.i + 1]
            here == PositionOf(context, tokens.i + 1)
            syms == SelectSeq(Reported, LAMBDA e : e.code = "invalid symbol")
        IN  /\ Yielded # <<>>
            /\ Yielded[1].kind = "value"
            /\ Yielded[1].position = tokens.state.position
            /\ IF c \in {123, 125, 91, 93, 44, 58}
                 THEN /\ Tail(Yielded) = <<SymbolToken(c, here)>>
                      /\ tokens'.state = whiteSpaceState
                      /\ syms = <<>>
               ELSE IF c = 34
                 THEN /\ Tail(Yielded) = <<>>
                      /\ tokens'.state = stringState(here)
                      /\ syms = <<>>
               ELSE IF c \in {32, 9, 13, 10}
                 THEN /\ Tail(Yielded) = <<>>
                      /\ tokens'.state = whiteSpaceState
                      /\ syms = <<>>
               ELSE /\ Tail(Yielded) = <<>>
                    /\ tokens'.state = whiteSpaceState
                    /\ syms = <<InvalidSymbol(c, here)>>
                    /\ Reported[Len(Reported)] = InvalidSymbol(c, here)
    ]_vars

C15_Witness ==
  /\ Drained
  /\ Codes(errors) = <<"unexpected end of string">>
  /\ Len(output) = 3
  /\ output[1].value = True
  /\ output[2] = SymbolToken(44, [line |-> 1, column |-> 5])
  /\ output[3].value = Str(<<>>)

\* C16: a value buffer still open when the text ends is finalized as if a
\* white space character had ended it: the same last token, the same errors.
C16_EndOfInputAsWhiteSpace ==
  (Drained /\ tokens.state.st = "jsonValue")
    => \A w \in {32, 9, 13, 10} :
         tokenize(context \o <<w>>) = [toks |-> output, errs |-> errors]

C16_Witness ==
  /\ Drained
  /\ tokens.state.st = "jsonValue"
  /\ Len(output) = 2
  /\ output[2].value.t = "str"
  /\ Codes(errors) = <<"invalid token">>

\* a character is given to the lexer in state st
CharTurn(st) == pc = "tokenize" /\ tokens.i < Len(context) /\ tokens.state.st = st

\* C17: in the String state a control character (0x00-0x1F or 0x7F) causes
\* exactly one `invalid symbol` error at its position and is appended to
\* the value all the same; the closing quote still gives the string token.
C17_ControlCharacterInString ==
  [][ CharTurn("string") =>
        LET L == tokens.state
            c == context[tokens.i + 1]
            here == PositionOf(context, tokens.i + 1)
        IN  IF c \in (0..31) \cup {127}
              THEN /\ Reported = <<InvalidSymbol(c, here)>>
                   /\ Yielded = <<>>
                   /\ tokens'.state = [L EXCEPT !.value = Append(@, c)]
            ELSE IF c = 34
              THEN /\ Reported = <<>>
                   /\ Yielded = <<ValueToken(Str(L.value), L.position)>>
                   /\ tokens'.state = whiteSpaceState
            ELSE Reported = <<>> /\ Yielded = <<>>
    ]_vars

C17_Witness ==
  /\ Drained
  /\ output = <<ValueToken(Str(<<127>>), [line |-> 1, column |-> 1])>>
  /\ errors = <<InvalidSymbol(127, [line |-> 1, column |-> 2])>>

InvalidEscape(c, position) ==
  [kind |-> "syntax", code |-> "invalid escape symbol", position |-> position,
   token |-> <<c>>,
   message |-> [code |-> "invalid escape symbol", token |-> <<c>>,
                line |-> position.line, column |-> position.column],
   url |-> url]

\* the escape table: the characters " \ / b t f r n and what they stand for
Escaped(c) ==
  CASE c = 34 -> 34 [] c = 92 -> 92 [] c = 47 -> 47 [] c = 98 -> 8
    [] c = 116 -> 9 [] c = 102 -> 12 [] c = 114 -> 13 [] c = 110 -> 10

\* the String state holding value v for the string that began at position
InString(v, position) == [stringState(position) EXCEPT !.value = v]

\* C18: after a backslash, a character of the escape table appends the
\* character it stands for, with no error; any other character except u
\* reports exactly one `invalid escape symbol` at it and appends the
\* character itself; either way the next character meets the String state.
C18_Escape ==
  [][ (CharTurn("escape") /\ context[tokens.i + 1] # 117) =>
        LET L == tokens.state
            c == context[tokens.i + 1]
            here == PositionOf(context, tokens.i + 1)
        IN  /\ Yielded = <<>>
            /\ IF c \in {34, 92, 47, 98, 116, 102, 114, 110}
                 THEN /\ Reported = <<>>
                      /\ tokens'.state = InString(Append(L.value, Escaped(c)), L.position)
                 ELSE /\ Reported = <<InvalidEscape(c, here)>>
                      /\ tokens'.state = InString(Append(L.value, c), L.position)
    ]_vars

C18_Witness ==
  /\ Drained
  /\ output = <<ValueToken(Str(<<10>>), [line |-> 1, column |-> 1])>>
  /\ errors = <<>>
  /\ context = <<34, 92, 110, 34>>

\* the value of a hexadecimal digit, upper or lower case
HexValue(c) == IF c <= 57 THEN c - 48 ELSE IF c <= 70 THEN c - 55 ELSE c - 87

IsHex(c) == c \in (48..57) \cup (65..70) \cup (97..102)

\* C19: after \u exactly four hexadecimal digits d1 d2 d3 d4 (either case)
\* are consumed; the character 4096*d1 + 256*d2 + 16*d3 + d4 (within
\* 0..65535) is appended, no error is reported, and the character after the
\* fourth digit meets the String state.
C19_UnicodeEscape ==
  [][ (CharTurn("unicode") /\ IsHex(context[tokens.i + 1])) =>
        LET L == tokens.state
            i == tokens.i
            \* the digits of this escape read before this one
            n == CHOOSE k \in 0..3 :
                   /\ context[i - k] = 117
                   /\ \A j \in 1..k : IsHex(context[i - k + j])
        IN  /\ Yielded = <<>>
            /\ Reported = <<>>
            /\ context[i - n - 1] = 92
            /\ IF n < 3
                 THEN /\ tokens'.state.st = "unicode"
                      /\ tokens'.state.value = L.value
                 ELSE LET code == 4096 * HexValue(context[i - 2]) + 256 * HexValue(context[i - 1])
                                  + 16 * HexValue(context[i]) + HexValue(context[i + 1])
                      IN  /\ code \in 0..65535
                          /\ tokens'.state = InString(Append(L.value, code), L.position)
    ]_vars

C19_Witness ==
  /\ Drained
  /\ context = <<34, 92, 117, 48, 48, 65, 101, 34>>
  /\ output = <<ValueToken(Str(<<174>>), [line |-> 1, column |-> 1])>>
  /\ errors = <<>>

\* C20: in a \u escape the first character among the four that is no
\* hexadecimal digit reports exactly one `invalid escape symbol` at it and
\* ends the escape: the digits read and that character add nothing to the
\* value, and the characters after it meet the String state ("\u0XAE" gives
\* AE and one error).
C20_UnicodeEscapeAborted ==
  [][ (CharTurn("unicode") /\ ~IsHex(context[tokens.i + 1])) =>
        LET L == tokens.state
            c == context[tokens.i + 1]
            here == PositionOf(context, tokens.i + 1)
        IN  /\ Yielded = <<>>
            /\ Reported = <<InvalidEscape(c, here)>>
            /\ tokens'.state = InString(L.value, L.position)
    ]_vars

C20_Witness ==
  /\ Drained
  /\ context = <<34, 92, 117, 48, 88, 65, 69, 34>>
  /\ output = <<ValueToken(Str(<<65, 69>>), [line |-> 1, column |-> 1])>>
  /\ errors = <<InvalidEscape(88, [line |-> 1, column |-> 5])>>

\* the place in s of the character at position (0 when there is none)
IndexOf(s, position) ==
  LET ks == { k \in 1..Len(s) : PositionOf(s, k) = position }
  IN  IF ks = {} THEN 0 ELSE CHOOSE k \in ks : TRUE

EndOfString(v, position) ==
  [kind |-> "syntax", code |-> "unexpected end of string", position |-> position,
   token |-> v,
   message |-> [code |-> "unexpected end of string", token |-> v,
                line |-> position.line, column |-> position.column],
   url |-> url]

\* the text ends inside a string: in the String, Escape or UnicodeEscape state
EndsInString ==
  /\ pc = "tokenize"
  /\ tokens.i = Len(context)
  /\ tokens.state.st \in {"string", "escape", "unicode"}

\* C21: when the text ends in the String, Escape or UnicodeEscape state,
\* exactly one `unexpected end of string` error is reported, at the position
\* of the opening quote and with the value accumulated so far as its token,
\* and one last value token with that value is given.  A pending backslash
\* and the digits of an unfinished unicode escape add nothing: the value is
\* the same after the backslash, after the u and after each of the first
\* three digits.
C21_EndOfString ==
  [][ /\ EndsInString =>
           LET L == tokens.state
           IN  /\ Reported = <<EndOfString(L.value, L.position)>>
               /\ Yielded = <<ValueToken(Str(L.value), L.position)>>
               /\ IndexOf(context, L.position) # 0
               /\ context[IndexOf(context, L.position)] = 34
               /\ pc' = "drained"
      /\ (CharTurn("string") /\ context[tokens.i + 1] = 92) =>
           /\ tokens'.state.st = "escape"
           /\ tokens'.state.value = tokens.state.value
           /\ tokens'.state.position = tokens.state.position
      /\ (CharTurn("escape") /\ context[tokens.i + 1] = 117) =>
           /\ tokens'.state.st = "unicode"
           /\ tokens'.state.value = tokens.state.value
           /\ tokens'.state.position = tokens.state.position
      /\ (CharTurn("unicode") /\ tokens'.state.st = "unicode") =>
           /\ tokens'.state.value = tokens.state.value
           /\ tokens'.state.position = tokens.state.position
    ]_vars

C21_Witness ==
  /\ Drained
  /\ context = <<34, 92, 117, 48, 88, 65, 69, 92, 117>>
  /\ tokens.state.st = "unicode"
  /\ output = <<ValueToken(Str(<<65, 69>>), [line |-> 1, column |-> 1])>>
  /\ errors = <<InvalidEscape(88, [line |-> 1, column |-> 5]),
                EndOfString(<<65, 69>>, [line |-> 1, column |-> 1])>>

\* the message `<code>, token: <token>, line: <line>, column: <column>` built
\* from the fields of error e
MessageOf(e) ==
  [code |-> e.code, token |-> e.token, line |-> e.position.line,
   column |-> e.position.column]

\* the reports about a token the parser got
AboutToken(e) == e.code \in {"unexpected token", "expecting property name"}

\* the text a structural error has for token t
TokenText(t) == IF t.kind = "value" THEN stringify(t.value) ELSE <<t.c>>

\* C22: every error given to the callback, lexical or structural, carries
\* the url given to parse and a message built from its own code, token and
\* position; a structural error about a token (`unexpected token`,
\* `expecting property name`) is at the position of a token of the text and
\* its token text is the JSON serialization of that token's value, or the
\* symbol of a symbol token.
C22_UrlAndMessage ==
  /\ \A k \in 1..Len(errors) :
       /\ errors[k].url = url
       /\ errors[k].message = MessageOf(errors[k])
       /\ errors[k].kind \in {"syntax", "structure"}
  /\ (Returned /\ \E k \in 1..Len(errors) : AboutToken(errors[k])) =>
       LET toks == tokenize(context).toks
       IN  \A k \in 1..Len(errors) :
             AboutToken(errors[k]) =>
               /\ errors[k].kind = "structure"
               /\ \E j \in 1..Len(toks) :
                    /\ toks[j].position = errors[k].position
                    /\ errors[k].token = TokenText(toks[j])

C22_Witness ==
  /\ Returned
  /\ context = <<123, 49, 46, 53, 48, 34>>
  /\ Len(errors) = 3
  /\ errors[1].kind = "structure"
  /\ errors[1].message =
       [code |-> "expecting property name", token |-> <<49, 46, 53>>, line |-> 1, column |-> 2]
  /\ errors[2].kind = "syntax"
  /\ errors[2].message =
       [code |-> "unexpected end of string", token |-> <<>>, line |-> 1, column |-> 6]
  /\ errors[3].kind = "structure"
  /\ errors[3].message =
       [code |-> "unexpected token", token |-> <<34, 34>>, line |-> 1, column |-> 6]

\* what tells one report from another: kind, code, position and token
Detection(e) == <<e.kind, e.code, e.position, e.token>>

\* the reports about a character the lexer got
AboutCharacter(e) == e.code \in {"invalid symbol", "invalid escape symbol"}

\* C24: within one call of parse no error is delivered twice: no two
\* reports have the same kind, code, position and token.  Each detection
\* has one report: a token is reported at most once by the parser, a
\* character at most once by the lexer, a value buffer at most once, the
\* end of the input at most once as `unexpected end of file` and at most
\* once as `unexpected end of string`.
C24_NoErrorTwice ==
  \A i \in 1..Len(errors) : \A j \in (i + 1)..Len(errors) :
    /\ Detection(errors[i]) # Detection(errors[j])
    /\ (AboutToken(errors[i]) /\ AboutToken(errors[j]))
         => errors[i].position # errors[j].position
    /\ (AboutCharacter(errors[i]) /\ AboutCharacter(errors[j]))
         => errors[i].position # errors[j].position
    /\ (errors[i].code = "invalid token" /\ errors[j].code = "invalid token")
         => errors[i].position # errors[j].position
    /\ errors[i].code \in {"unexpected end of file", "unexpected end of string"}
         => errors[i].code # errors[j].code

C24_Witness ==
  /\ Returned
  /\ Len(errors) >= 3
  /\ \E i \in 1..Len(errors) : \E j \in (i + 1)..Len(errors) :
       /\ errors[i].kind = errors[j].kind
       /\ errors[i].code = errors[j].code
       /\ errors[i].token = errors[j].token
       /\ errors[i].position # errors[j].position
  /\ \E i \in 1..Len(errors) : errors[i].kind = "syntax"
  /\ \E i \in 1..Len(errors) : errors[i].kind = "structure"

\* the calls of parse that have returned: the earlier ones and, once it has
\* returned, this one
Finished ==
  calls \o (IF Returned
              THEN <<CallRecord(url, context, errors, returned, heap, tokenize(context).toks)>>
              ELSE <<>>)

WithoutUrl(e) == [e EXCEPT !.url = ""]

ErrorsWithoutUrl(errs) == [k \in 1..Len(errs) |-> WithoutUrl(errs[k])]

HeapWithoutUrl(hp) == [k \in 1..Len(hp) |-> [hp[k] EXCEPT !.info.url = ""]]

\* C25: the url reaches nothing but the url field of the errors and of the
\* root's info: two calls on the same text, whatever their urls, have the
\* same tokens, return the same value and report the same errors (kind,
\* code, token, position, message) in the same order; the trees differ at
\* most in the url of the root's info, which is the call's url, as is the
\* url of each of the call's errors.
C25_UrlOnlyStamped ==
  /\ \A i \in 1..Len(Finished) : \A j \in 1..Len(Finished) :
       Finished[i].context = Finished[j].context
         => /\ Finished[i].tokens = Finished[j].tokens
            /\ Finished[i].returned = Finished[j].returned
            /\ ErrorsWithoutUrl(Finished[i].errors) = ErrorsWithoutUrl(Finished[j].errors)
            /\ HeapWithoutUrl(Finished[i].heap) = HeapWithoutUrl(Finished[j].heap)
  /\ \A i \in 1..Len(Finished) :
       /\ \A k \in 1..Len(Finished[i].errors) : Finished[i].errors[k].url = Finished[i].url
       /\ \A k \in 1..Len(Finished[i].heap) :
            Finished[i].heap[k].info.url = (IF k = 1 THEN Finished[i].url ELSE "")

C25_Witness ==
  /\ Returned
  /\ Len(calls) >= 1
  /\ calls[1].context = context
  /\ calls[1].url # url
  /\ returned = Ref(1)
  /\ Len(heap) = 2
  /\ Len(errors) >= 2
  /\ calls[1].heap # heap

\* parse(url, s, e => errors.push(e)) as a function of s: the loop of
\* fa.applyState from configuration P and generator G on, to its end
RECURSIVE collecting(_, _, _)
collectingOn(P, r, s) ==
  IF ~r.got THEN [P EXCEPT !.errors = @ \o r.errs \o parserDone(P)]
  ELSE IF P.state.k = "dead" THEN [P EXCEPT !.errors = @ \o r.errs]
  ELSE collecting(stateNext([P EXCEPT !.errors = @ \o r.errs], r.tok), r.gen, s)

collecting(P, G, s) == collectingOn(P, pull(G, s, <<>>), s)

\* the configuration parse ends its loop with
Collected(s) ==
  collecting(Config(ParserState("value", <<>>), <<>>, <<>>, Undefined, <<>>), StartGenerator, s)

\* the errors a collecting callback gets from parse(url, s, ...), in order
CollectedErrors(s) ==
  Collected(s).errors
    \o (IF Collected(s).value = Undefined
          THEN <<[kind |-> "structure", code |-> "unexpected end of file",
                  position |-> [line |-> 1, column |-> 1], token |-> <<>>,
                  message |-> [code |-> "unexpected end of file", token |-> <<>>,
                               line |-> 1, column |-> 1],
                  url |-> url]>>
          ELSE <<>>)

\* parse was left by an exception
Thrown == pc = "thrown"

\* The lexer has read no further than the token at position: of the tokens
\* toks of the text it has taken, that token is the last one, or the one
\* before a last one that begins at the very character that ended it (the
\* last character taken).
ReadUpTo(position, toks) ==
  \E j \in 1..Len(toks) :
    /\ toks[j].position = position
    /\ \/ j = Len(toks)
       \/ /\ j = Len(toks) - 1
          /\ toks[j].kind = "value"
          /\ toks[j + 1].position = PositionOf(context, tokens.i)

\* C26: when the callback raises (defaultErrorReport), the exception leaves
\* parse at the first error detected: the callback is called once, with the
\* first error a collecting callback would get; nothing is returned; the
\* generator of tokenize has ended with no token left to give, and the
\* lexer has taken no character beyond the one at which the error showed;
\* the parser's variables are as they were before the report.  parse
\* returns only for a text on which nothing is reported.
C26_RaisePropagates ==
  /\ Len(errors) <= 1
  /\ Thrown <=> errors # <<>>
  /\ Thrown =>
       /\ errors[1] = CollectedErrors(context)[1]
       /\ returned = Undefined
       /\ tokens.closed
       /\ tokens.queue = <<>>
       /\ errors[1].code \in {"invalid symbol", "invalid escape symbol"}
            => PositionOf(context, tokens.i) = errors[1].position
       /\ errors[1].code = "invalid token"
            => tokens.i <= IndexOf(context, errors[1].position) + Len(errors[1].token)
       /\ errors[1].code \in {"unexpected token", "expecting property name"}
            => ReadUpTo(errors[1].position, tokenize(SubSeq(context, 1, tokens.i)).toks)
  /\ Returned =>
       /\ CollectedErrors(context) = <<>>
       /\ returned = Collected(context).value
       /\ heap = Collected(context).heap

C26_Witness ==
  /\ Thrown
  /\ context = <<91, 49, 125, 127>>
  /\ errors[1].code = "unexpected token"
  /\ errors[1].token = <<125>>
  /\ Len(CollectedErrors(context)) = 3
  /\ tokens.i = 3
  /\ value = Ref(1)

\* a token arrives at a state of the parser that has a next
TokenTurn == pc = "loop" /\ Pulled.got /\ state.k # "dead"

\* the `unexpected token` error for token t
Rejection(t) ==
  [kind |-> "structure", code |-> "unexpected token", position |-> t.position,
   token |-> TokenText(t),
   message |-> [code |-> "unexpected token", token |-> TokenText(t),
                line |-> t.position.line, column |-> t.position.column],
   url |-> url]

\* this step reports the token as `unexpected token`, once, after the
\* lexical errors met on the way to it
Rejected == errors' = errors \o Pulled.errs \o <<Rejection(Pulled.tok)>>

\* this step reports nothing but the lexical errors met on the way
Accepted == errors' = errors \o Pulled.errs

\* the parser is where it was: same state, same open containers, same
\* objects and arrays with the same members, side tables and info, same root
Frame == state' = state /\ stack' = stack /\ heap' = heap /\ value' = value

IsSymbol(t, c) == t.kind = "symbol" /\ t.c = c

\* the parser awaits a value for token t: at top level, after ":", after
\* "," in an array, or after "[" unless t is "]"
InValuePosition(t) ==
  \/ state.k = "value"
  \/ state.k = "array" /\ ~IsSymbol(t, 93)

\* value v is placed where the value position belongs to
Placed(v) ==
  IF stack = <<>> THEN value' = v
  ELSE IF Top(stack).kind = "object"
    THEN \E k \in 1..Len(heap'[Top(stack).id].entries) :
           heap'[Top(stack).id].entries[k] = [name |-> state.name, v |-> v]
  ELSE heap'[Top(stack).id].entries =
         Append(heap[Top(stack).id].entries, [name |-> <<>>, v |-> v])

\* C27: in a value position a token that is neither a value nor "{" nor "["
\* is reported once as `unexpected token`, places nothing and leaves the
\* parser in the same value position; a value, "{" or "[" arriving there
\* (first, or after rejected tokens) is accepted and placed.
C27_ValuePosition ==
  [][ (TokenTurn /\ InValuePosition(Pulled.tok)) =>
        LET t == Pulled.tok
        IN  IF t.kind = "value"
              THEN /\ Accepted
                   /\ Placed(t.value)
                   /\ stack' = stack
                   /\ state'.k = (IF stack = <<>> THEN "end" ELSE "separator")
            ELSE IF t.c \in {123, 91}
              THEN /\ Accepted
                   /\ Placed(Ref(Len(heap) + 1))
                   /\ Len(heap') = Len(heap) + 1
                   /\ heap'[Len(heap')].kind = (IF t.c = 123 THEN "object" ELSE "array")
                   /\ heap'[Len(heap')].entries = <<>>
                   /\ Len(stack') = Len(stack) + 1
                   /\ Top(stack').id = Len(heap')
                   /\ state'.k = (IF t.c = 123 THEN "object" ELSE "array")
            ELSE Rejected /\ Frame
    ]_vars

C27_Witness ==
  /\ Returned
  /\ context = <<125, 91, 93>>
  /\ returned = Ref(1)
  /\ heap[1].kind = "array"
  /\ heap[1].entries = <<>>
  /\ errors = <<Rejection(SymbolToken(125, [line |-> 1, column |-> 1]))>>

\* C28: after a property key every token but ":" is reported as
\* `unexpected token` and dropped, the parser still waiting for ":" with
\* the same key; ":" leads to the value position of that key.  No object
\* or array changes while a key is awaited or has been read: a property is
\* added only by a value arriving in the value position that ":" led to.
C28_AfterKey ==
  [][ /\ (TokenTurn /\ state.k = "propertyValue") =>
           IF IsSymbol(Pulled.tok, 58)
             THEN /\ Accepted
                  /\ state' = [k |-> "value", name |-> state.name]
                  /\ stack' = stack /\ heap' = heap /\ value' = value
           ELSE Rejected /\ Frame
      /\ (TokenTurn /\ state.k \in {"object", "property", "propertyValue"}) => heap' = heap
      /\ (TokenTurn /\ stack' # <<>> /\ Top(stack').kind = "object" /\ state'.k = "value"
            /\ state.k # "value")
           => (state.k = "propertyValue" /\ IsSymbol(Pulled.tok, 58))
      /\ (pc = "loop" /\ pc' = "return") => heap' = heap
      /\ pc = "return" => heap' = heap
    ]_vars

C28_Witness ==
  /\ Returned
  /\ context = <<123, 34, 97, 34, 44, 58, 49>>
  /\ Codes(errors) = <<"unexpected token", "unexpected end of file">>
  /\ errors[1].token = <<44>>
  /\ heap[1].entries = <<[name |-> <<97>>, v |-> Normalize(1, 0)]>>

\* C29: while a container is open or the top-level value is awaited, a
\* step that reports its token as `unexpected token` changes nothing else:
\* the parser's state, the open containers, every object and array with
\* its members, side table and info, and the root are as before, and that
\* one error is the only one reported for the token.  The tokens after it
\* therefore meet the parser they would have met without it.
C29_RejectedTokenChangesNothing ==
  [][ (/\ TokenTurn
       /\ state.k # "end"
       /\ \E k \in 1..Len(Reported) :
            Reported[k].kind = "structure" /\ Reported[k].code = "unexpected token")
        => (Rejected /\ Frame /\ pc' = "loop")
    ]_vars

C29_Witness ==
  /\ Returned
  /\ context = <<91, 49, 44, 91, 49, 58, 93>>
  /\ errors = <<Rejection(SymbolToken(58, [line |-> 1, column |-> 6])),
                [Rejection(SymbolToken(93, [line |-> 1, column |-> 1]))
                   EXCEPT !.code = "unexpected end of file",
                          !.message.code = "unexpected end of file"]>>
  /\ heap[2].entries = <<[name |-> <<>>, v |-> Normalize(1, 0)]>>
  /\ stack = <<[kind |-> "array", id |-> 1, position |-> [line |-> 1, column |-> 1]]>>

\* the token before the one the generator gives now (NoToken at the first)
PreviousToken ==
  LET toks == tokenize(context).toks
      js == { j \in 1..Len(toks) : toks[j].position = Pulled.tok.position }
  IN  IF js = {} \/ (CHOOSE j \in js : TRUE) = 1 THEN NoToken
      ELSE toks[(CHOOSE j \in js : TRUE) - 1]

\* C30: inside an open container a closing token is accepted only right
\* after the opener or after a complete element: a "}" or "]" that comes
\* directly after a "," is reported as `unexpected token` and the container
\* stays open.  The code closes `[,]` and `{,}`: the "," is rejected in the
\* state after the opener, which stays, and the closing token is accepted.
C30_CloserAfterComma ==
  [][ (/\ TokenTurn
       /\ stack # <<>>
       /\ Pulled.tok.kind = "symbol"
       /\ Pulled.tok.c \in {125, 93}
       /\ IsSymbol(PreviousToken, 44))
        => (Rejected /\ Frame)
    ]_vars

\* What the code does about closing tokens (it holds of Spec): a closing
\* token is accepted only in the state right after the opener (which a
\* rejected token does not leave: `[,]` closes, with one error for the ",")
\* and in the separator state after a complete element, and only the
\* closing symbol of the innermost container.  A ","
\* is accepted in the separator state only and leads to the property-key
\* state (object) or the value position (array); there, and after a key or
\* a ":", "}" and "]" are reported as `unexpected token` and the container
\* stays open, the parser still waiting for a member of it.
C30_CloserAfterSeparator ==
  [][ /\ (/\ TokenTurn
          /\ stack # <<>>
          /\ Pulled.tok.kind = "symbol"
          /\ Pulled.tok.c \in {125, 93})
           => IF /\ state.k \in {"object", "array", "separator"}
                 /\ Pulled.tok.c = (IF heap[Top(stack).id].kind = "object" THEN 125 ELSE 93)
                THEN /\ Accepted
                     /\ stack' = SubSeq(stack, 1, Len(stack) - 1)
                     /\ heap' = heap
                     /\ state'.k = (IF Len(stack) = 1 THEN "end" ELSE "separator")
              ELSE Rejected /\ Frame
      /\ (TokenTurn /\ stack # <<>> /\ IsSymbol(Pulled.tok, 44)) =>
           IF state.k = "separator"
             THEN /\ Accepted
                  /\ state'.k = (IF heap[Top(stack).id].kind = "object" THEN "property"
                                  ELSE "value")
                  /\ stack' = stack /\ heap' = heap
           ELSE Rejected /\ Frame
    ]_vars

\* the consumer of tokenize has left its loop
Stopped == pc = "stopped"

RECURSIVE ProducedAt(_, _, _)
\* The number of characters the lexer has been given when it yields its
\* k-th token from generator G on: the characters are given one by one
\* until the tokens their steps yield come to k (all of the text when the
\* k-th token is the one state.done gives at the end).
ProducedAt(G, s, k) ==
  IF G.i = Len(s) THEN Len(s)
  ELSE LET r == charStep(G, s)
       IN  IF Len(r.gen.queue) >= k THEN G.i + 1
           ELSE ProducedAt([r.gen EXCEPT !.queue = <<>>], s, k - Len(r.gen.queue))

\* C31: the lexer runs only as far as its consumer pulls.  When the
\* consumer of tokenize has taken k tokens (and when it then stops), the
\* tokens are the first k tokens of the text, the last character the lexer
\* was given is the one whose step yielded the k-th token (none before the
\* first token is asked for), every error reported is about a character up
\* to that one and is an error of the text, in order, and a consumer that
\* stops leaves the rest of the text unread.
C31_RunsAsFarAsPulled ==
  (pc \in {"consume", "stopped"}) =>
    LET k == Len(output)
        all == tokenize(context)
    IN  /\ k <= Len(all.toks)
        /\ output = SubSeq(all.toks, 1, k)
        /\ tokens.i = (IF k = 0 THEN 0 ELSE ProducedAt(StartGenerator, context, k))
        /\ Len(errors) <= Len(all.errs)
        /\ errors = SubSeq(all.errs, 1, Len(errors))
        /\ \A j \in 1..Len(errors) :
             /\ IndexOf(context, errors[j].position) # 0
             /\ IndexOf(context, errors[j].position) <= tokens.i
        /\ Stopped => tokens.closed /\ tokens.queue = <<>>

\* the consumer stopped after the first two tokens of [,<DEL>: the DEL was
\* never given to the lexer and its error never reported
C31_Witness ==
  /\ Stopped
  /\ context = <<91, 44, 127>>
  /\ Len(output) = 2
  /\ tokens.i = 2
  /\ errors = <<>>
  /\ tokenize(context).errs # <<>>

\* a character that starts nothing: no white space, symbol, quote or
\* character of a value buffer
StartsNothing(c) ==
  /\ c \notin {32, 9, 13, 10}
  /\ c \notin {123, 125, 91, 93, 44, 58}
  /\ c # 34
  /\ ~((c >= 97 /\ c <= 122) \/ (c >= 65 /\ c <= 90) \/ (c >= 48 /\ c <= 57)
       \/ c \in {95, 43, 45, 46})

\* the tokens and errors of the rest of text s, from generator G on
Rest(G, s) == drain(G, s, <<>>, <<>>)

\* C32: in the Start state (outside strings and value buffers) a character
\* that is not white space, not a symbol, not a quote and not a value
\* character reports exactly one `invalid symbol` error at its position,
\* emits no token and leaves the lexer in the Start state; the tokens that
\* follow, and the errors after that one, are those the text would give
\* with a space in the character's place.
C32_InvalidSymbolAsSpace ==
  [][ (CharTurn("whiteSpace") /\ StartsNothing(context[tokens.i + 1])) =>
        LET c == context[tokens.i + 1]
            here == PositionOf(context, tokens.i + 1)
            spaced == [context EXCEPT ![tokens.i + 1] = 32]
        IN  /\ Reported = <<InvalidSymbol(c, here)>>
            /\ Yielded = <<>>
            /\ tokens'.state = whiteSpaceState
            /\ Rest(tokens, context).toks = Rest(tokens, spaced).toks
            /\ Rest(tokens, context).errs = <<InvalidSymbol(c, here)>> \o Rest(tokens, spaced).errs
            /\ tokenize(context).toks = tokenize(spaced).toks
    ]_vars

\* <DEL>, drained: the error of the DEL, then the token of the comma
C32_Witness ==
  /\ Drained
  /\ context = <<127, 44>>
  /\ output = <<SymbolToken(44, [line |-> 1, column |-> 2])>>
  /\ errors = <<InvalidSymbol(127, [line |-> 1, column |-> 1])>>

\* the objects and arrays held by container id of heap hp
Children(hp, id) ==
  { hp[id].entries[k].v.m : k \in { j \in 1..Len(hp[id].entries) : hp[id].entries[j].v.t = "ref" } }

RECURSIVE Reach(_, _)
\* the containers that can be reached from those of S
Reach(hp, S) ==
  LET N == S \cup UNION { Children(hp, id) : id \in S }
  IN  IF N = S THEN S ELSE Reach(hp, N)

\* the objects and arrays reachable from the root
Reachable == IF value.t = "ref" THEN Reach(heap, {value.m}) ELSE {}

\* the places <<p, k>> where container id is held: as the k-th entry of p
Holders(id) ==
  UNION { { <<p, k>> : k \in { j \in 1..Len(heap[p].entries) : heap[p].entries[j].v = Ref(id) } } :
          p \in Ids }

\* the column in the text of the k-th element of array p
ElementColumn(p, k) ==
  LET v == heap[p].entries[k].v
  IN  IF v.t = "ref" THEN heap[v.m].info.position.column
      ELSE (CHOOSE e \in heap[p].prim : e.name = Digits(k - 1)).position.column

\* C33: every object and array reachable from the root, other than the root,
\* is held at exactly one place of the tree, and its info says so: parent is
\* the container that holds it, and the parent's property of that name (for
\* an array: the element of that index) is that very object or array.  The
\* elements of a reachable array have the indices 0..n-1 in the order they
\* were inserted, which is their order in the text.
C33_OneParentLink ==
  (Returned /\ returned.t = "ref") =>
  /\ returned = value
  /\ \A id \in Reachable \ {value.m} :
       LET info == heap[id].info
       IN  /\ info.isChild
           /\ Cardinality(Holders(id)) = 1
           /\ \A h \in Holders(id) :
                /\ info.parent = h[1]
                /\ h[1] \in Reachable
                /\ IF heap[h[1]].kind = "object"
                     THEN /\ info.propertyKind = "key"
                          /\ info.property = heap[h[1]].entries[h[2]].name
                          /\ \A k \in 1..Len(heap[h[1]].entries) :
                               heap[h[1]].entries[k].name = info.property =>
                                 heap[h[1]].entries[k].v = Ref(id)
                     ELSE /\ info.propertyKind = "index"
                          /\ info.index = h[2] - 1
                          /\ heap[h[1]].entries[info.index + 1].v = Ref(id)
  /\ \A p \in Reachable :
       heap[p].kind = "array" =>
         /\ \A k \in 1..Len(heap[p].entries) :
              isPrimitive(heap[p].entries[k].v) <=>
                \E e \in heap[p].prim : e.name = Digits(k - 1)
         /\ \A e \in heap[p].prim :
              \E k \in 1..Len(heap[p].entries) : e.name = Digits(k - 1)
         /\ \A k \in 2..Len(heap[p].entries) :
              ElementColumn(p, k - 1) < ElementColumn(p, k)

\* [1,[1,[ has returned: the innermost array is element 1 of the array that
\* is element 1 of the root
C33_Witness ==
  /\ Returned
  /\ returned = Ref(1)
  /\ Len(heap) = 3
  /\ Reachable = {1, 2, 3}
  /\ heap[3].info.parent = 2
  /\ heap[3].info.index = 1
  /\ heap[2].info.parent = 1
  /\ heap[2].info.index = 1

\* a token that starts a value: a value token, `{` or `[`
StartsValue(t) == t.kind = "value" \/ t.c \in {123, 91}

\* the place among toks of the first token that starts a value (0: none)
FirstStart(toks) ==
  LET ks == { k \in 1..Len(toks) : StartsValue(toks[k]) }
  IN  IF ks = {} THEN 0 ELSE CHOOSE k \in ks : \A j \in ks : k <= j

\* what parse returns for the tokens toks whose first value starts at f
RootOf(toks, f) ==
  IF f = 0 THEN Null
  ELSE IF toks[f].kind = "value" THEN toks[f].value
  ELSE Ref(1)

\* C34: the top-level value is set at most once per parse.  It is set by
\* the first token of the stream that is a value, `{` or `[`: the `}`, `]`,
\* `,` and `:` tokens before it are each rejected and skipped; once set, no
\* later token replaces it, and it is what parse returns.  parse returns
\* null only when there is no such token or the token is the literal null.
C34_RootSetOnce ==
  [][ /\ value # Undefined => value' = value
      /\ (value = Undefined /\ value' # Undefined) =>
           /\ TokenTurn
           /\ state.k = "value"
           /\ stack = <<>>
           /\ StartsValue(Pulled.tok)
           /\ value' = (IF Pulled.tok.kind = "value" THEN Pulled.tok.value ELSE Ref(1))
      /\ pc = "return" =>
           LET toks == tokenize(context).toks
               f == FirstStart(toks)
           IN  /\ returned' = RootOf(toks, f)
               /\ f = 0 <=> value = Undefined
               /\ f # 0 =>
                    /\ returned' = value
                    /\ Len(Structural(errors)) >= f - 1
                    /\ SubSeq(Structural(errors), 1, f - 1)
                         = [j \in 1..(f - 1) |-> UnexpectedToken(toks[j])]
                    /\ toks[f].kind = "symbol" =>
                         /\ heap[1].kind = (IF toks[f].c = 123 THEN "object" ELSE "array")
                         /\ heap[1].info.position = toks[f].position
                         /\ ~heap[1].info.isChild
               /\ returned' = Null <=> (f = 0 \/ toks[f].value = Null)
    ]_vars

\* :1, has returned 1: the colon before it and the comma after it were
\* rejected
C34_Witness ==
  /\ Returned
  /\ context = <<58, 49, 44>>
  /\ returned = Normalize(1, 0)
  /\ Codes(errors) = <<"unexpected token", "unexpected token">>
  /\ errors[1].token = <<58>>
  /\ errors[2].token = <<44>>

\* the `unexpected end of file` error of parse's last statements
TopEndOfFile ==
  [kind |-> "structure", code |-> "unexpected end of file",
   position |-> [line |-> 1, column |-> 1], token |-> <<>>,
   message |-> [code |-> "unexpected end of file", token |-> <<>>, line |-> 1, column |-> 1],
   url |-> url]

\* C35: the top-level `unexpected end of file` error (empty token, line 1,
\* column 1) is reported if and only if the token stream holds no value,
\* `{` or `[` token; it is reported by the last statements of parse and by
\* nothing else, never after a container's `unexpected end of file` error,
\* and so a parse reports at most one `unexpected end of file` error.
C35_TopEndOfFile ==
  [][ /\ pc = "return" =>
           /\ Reported \in {<<>>, <<TopEndOfFile>>}
           /\ Reported = <<TopEndOfFile>> <=> FirstStart(tokenize(context).toks) = 0
           /\ Reported = <<TopEndOfFile>> => EndOfFile(errors) = <<>>
      /\ pc = "loop" =>
           /\ \A k \in 1..Len(Reported) :
                Reported[k].code = "unexpected end of file" =>
                  /\ Reported[k].token \in {<<125>>, <<93>>}
                  /\ Reported[k] # TopEndOfFile
                  /\ k = Len(Reported)
                  /\ pc' = "return"
                  /\ value # Undefined
                  /\ stack # <<>>
      /\ Len(EndOfFile(errors')) <= 1
    ]_vars

\* ,: has returned null with three errors, the last one the top-level end
\* of file
C35_Witness ==
  /\ Returned
  /\ context = <<44, 58>>
  /\ returned = Null
  /\ Len(errors) = 3
  /\ errors[3] = TopEndOfFile
  /\ Codes(errors) = <<"unexpected token", "unexpected token", "unexpected end of file">>

\* the nesting depth: the number of open containers
Depth == Len(stack)

\* C36: containers close in strict nesting order.  A `}` is accepted only
\* while the innermost open container is an object, a `]` only while it is
\* an array, and only in the state after the opener or the separator state;
\* on acceptance that container is closed and the parser resumes in the
\* state that waited for it as a value: the separator state of the
\* enclosing container, or the top-level end state.  An accepted `{` or `[`
\* opens a container inside the innermost one; no other step changes the
\* open containers, so the depth is the accepted openers minus the accepted
\* closers, and never negative.
C36_StrictNesting ==
  [][ /\ (TokenTurn /\ Accepted /\ Pulled.tok.kind = "symbol" /\ Pulled.tok.c \in {125, 93}) =>
           /\ Depth >= 1
           /\ Top(stack).kind = (IF Pulled.tok.c = 125 THEN "object" ELSE "array")
           /\ heap[Top(stack).id].kind = Top(stack).kind
           /\ state.k \in {"object", "array", "separator"}
           /\ state.k \in {"object", "array"} => state.k = Top(stack).kind
           /\ stack' = SubSeq(stack, 1, Depth - 1)
           /\ state'.k = (IF Depth = 1 THEN "end" ELSE "separator")
           /\ heap' = heap
      /\ (TokenTurn /\ Accepted /\ Pulled.tok.kind = "symbol" /\ Pulled.tok.c \in {123, 91}) =>
           /\ Len(stack') = Depth + 1
           /\ SubSeq(stack', 1, Depth) = stack
           /\ Top(stack').kind = (IF Pulled.tok.c = 123 THEN "object" ELSE "array")
           /\ Top(stack').id = Len(heap) + 1
           /\ state'.k = Top(stack').kind
      /\ ~(TokenTurn /\ Accepted /\ Pulled.tok.kind = "symbol"
           /\ Pulled.tok.c \in {123, 91, 125, 93}) => stack' = stack
      /\ state.k = "end" => Depth = 0
      /\ state.k \in {"object", "array", "separator", "property", "propertyValue"} => Depth >= 1
    ]_vars

\* [1,[}]] has returned: the `}` was rejected inside the inner array, then
\* the two `]` closed the inner and the outer array
C36_Witness ==
  /\ Returned
  /\ context = <<91, 49, 44, 91, 125, 93, 93>>
  /\ stack = <<>>
  /\ state = endState
  /\ Len(heap) = 2
  /\ Codes(errors) = <<"unexpected token">>
  /\ errors[1].token = <<125>>

\* the places in errs of the errors about a token
TokenErrors(errs) == { k \in 1..Len(errs) : AboutToken(errs[k]) }

\* C37: errors reach the callback in pipeline order.  In the step that
\* handles a token, the lexical errors met on the way to the token come
\* first and the one structural error about the token, if any, last; the
\* `unexpected token` and `expecting property name` errors stand in the
\* order of their tokens in the text; a lexical error at a token's own
\* position (`invalid token`, `unexpected end of string`) stands before the
\* structural error about that token; and an `unexpected end of file`
\* error is the last error the callback gets.
C37_PipelineOrder ==
  [][ /\ TokenTurn =>
           /\ Len(Reported) >= Len(Pulled.errs)
           /\ SubSeq(Reported, 1, Len(Pulled.errs)) = Pulled.errs
           /\ Len(Reported) <= Len(Pulled.errs) + 1
           /\ \A k \in 1..Len(Reported) :
                IF k <= Len(Pulled.errs)
                  THEN /\ Reported[k].kind = "syntax"
                       /\ IndexOf(context, Reported[k].position) # 0
                       /\ IndexOf(context, Reported[k].position) <= tokens'.i
                  ELSE /\ Reported[k].kind = "structure"
                       /\ AboutToken(Reported[k])
                       /\ Reported[k].position = Pulled.tok.position
                       /\ Reported[k].token = TokenText(Pulled.tok)
      /\ \A a \in TokenErrors(errors') : \A b \in TokenErrors(errors') :
           a < b => IndexOf(context, errors'[a].position) < IndexOf(context, errors'[b].position)
      /\ \A a \in 1..Len(errors') : \A b \in TokenErrors(errors') :
           (errors'[a].kind = "syntax" /\ errors'[a].position = errors'[b].position) => a < b
      /\ \A k \in 1..Len(errors') :
           errors'[k].code = "unexpected end of file" => k = Len(errors')
      /\ (errors # <<>> /\ errors[Len(errors)].code = "unexpected end of file") => Reported = <<>>
    ]_vars

\* {"a":1" has returned: the string never closed is reported by the lexer,
\* then its token is rejected after the value 1, and the end of file in the
\* object comes last
C37_Witness ==
  /\ Returned
  /\ context = <<123, 34, 97, 34, 58, 49, 34>>
  /\ Codes(errors) = <<"unexpected end of string", "unexpected token", "unexpected end of file">>
  /\ errors[1].position = errors[2].position
  /\ errors[2].token = <<34, 34>>
  /\ errors[3].token = <<125>>

\* a quote is given to the lexer inside a string
QuoteInString ==
  /\ pc = "tokenize"
  /\ tokens.i < Len(context)
  /\ context[tokens.i + 1] = 34
  /\ tokens.state.st \in {"string", "escape", "unicode"}

\* the string token of the string the lexer is in
StringToken == ValueToken(Str(tokens.state.value), tokens.state.position)

\* C38: inside a string, a quote ends the string token unless it is the
\* character right after the backslash of an escape (the Escape state); in
\* particular a quote met while digits of a \u escape are still expected
\* ends the string.  The code's unicodeState takes the quote for a bad
\* digit: it reports `invalid escape symbol`, drops the quote and goes on
\* in the string.
C38_QuoteEndsString ==
  [][ QuoteInString =>
        IF tokens.state.st = "escape"
          THEN /\ Yielded = <<>>
               /\ tokens'.state.st = "string"
               /\ tokens'.state.value = Append(tokens.state.value, 34)
          ELSE /\ Yielded = <<StringToken>>
               /\ tokens'.state = whiteSpaceState
    ]_vars

\* What the code does about a quote inside a string (it holds of LexSpec):
\* it ends the string in the String state only; after a backslash it is
\* the escaped quote, and in a \u escape it is reported and dropped, the
\* string going on.
C38_QuoteEndsStringState ==
  [][ QuoteInString =>
        IF tokens.state.st = "string"
          THEN /\ Yielded = <<StringToken>>
               /\ Reported = <<>>
               /\ tokens'.state = whiteSpaceState
        ELSE IF tokens.state.st = "escape"
          THEN /\ Yielded = <<>>
               /\ Reported = <<>>
               /\ tokens'.state = InString(Append(tokens.state.value, 34), tokens.state.position)
        ELSE /\ Yielded = <<>>
             /\ Reported = <<InvalidEscape(34, PositionOf(context, tokens.i + 1))>>
             /\ tokens'.state = InString(tokens.state.value, tokens.state.position)
    ]_vars

RECURSIVE LexRun(_, _, _)
\* the lexer's state after the characters of s up to the n-th have been
\* given to it once each, in order, from generator G on
LexRun(G, s, n) ==
  IF G.i >= n THEN G.state ELSE LexRun(charStep(G, s).gen, s, n)

\* a value of the type json.Json: null, a boolean, a number, a string, or
\* an object or array of the tree
IsJson(v) ==
  \/ v.t \in {"null", "true", "false", "num", "inf", "str"}
  \/ v.t = "ref" /\ v.m \in Ids

\* C39: for every text, with a callback that returns, parse terminates and
\* returns a JSON value.  It is one pass: in each step the lexer goes
\* forward over the characters from where it stood, each given to it once
\* and in order, never back; the parser's step handles the one token the
\* stream gives next and takes it off the stream, so no token is handled
\* twice; when the stream has ended or the parser has stopped, the call
\* goes on to its return.
C39_TerminatesInOnePass ==
  /\ <>Returned
  /\ [](Returned => (IsJson(returned) /\ tokens.closed))
  /\ [][ /\ tokens.i <= tokens'.i
         /\ tokens'.i <= Len(context)
         /\ tokens'.state = LexRun(tokens, context, tokens'.i)
         /\ tokens'.position = PositionOf(context, tokens'.i + 1)
         /\ TokenTurn =>
              /\ Rest(tokens, context).toks = <<Pulled.tok>> \o Rest(tokens', context).toks
              /\ Len(Rest(tokens', context).toks) < Len(Rest(tokens, context).toks)
              /\ stateNext(Before, Pulled.tok) = Config(state', stack', heap', value', errors')
         /\ (pc = "loop" /\ ~TokenTurn) =>
              /\ pc' = "return"
              /\ tokens'.closed
              /\ state' = state /\ heap' = heap /\ value' = value
         /\ pc = "return" => (pc' = "returned" /\ tokens' = tokens /\ heap' = heap)
         /\ pc # "returned"
    ]_vars

\* [1,[ then 1] has returned the root array: the whole text was read, once
C39_Witness ==
  /\ Returned
  /\ context = <<91, 49, 44, 91, 49, 93>>
  /\ tokens.i = Len(context)
  /\ tokens.closed
  /\ returned = Ref(1)
  /\ Len(heap) = 2
  /\ Codes(errors) = <<"unexpected end of file">>


====
